---- MODULE Spec2Model ----
(***************************************************************************)
(* gpt-files: a command-line client keeping three kinds of remote objects  *)
(* (assistant, files, vector stores) consistent across multi-step HTTP     *)
(* operations.  The model holds the remote state, and one invocation of    *)
(* the orchestrator (Client) at a time, advancing one network call per     *)
(* step; each network call either succeeds (the remote applies it) or      *)
(* fails (the resource client throws ApiError and the remote is unchanged).*)
(***************************************************************************)
EXTENDS Integers, Sequences, FiniteSets, TLC

(* ------------------------------ bounds --------------------------------- *)

\* how many orchestrator operations one behaviour runs, one after another
MaxOps == 1

\* how many local files a directory given to uploadDir holds at most
MaxDirLen == 2

\* local file names
Names == {"a", "b"}

(* ------------------------------ state ---------------------------------- *)

VARIABLES
  files,        \* remote: the file records, in server order: <<[id, filename]>>
  nextFileId,   \* remote: the id the next uploaded file gets
  asst,         \* remote: the assistant record
  stores,       \* remote: the ids of the vector stores that exist
  nextStoreId,  \* remote: the id the next created vector store gets
  attachments,  \* remote: the vector-store file records, <<store id, file id>>
  pc,           \* client: the position of the running operation
  args,         \* client: the arguments of the running operation
  loc,          \* client: the local variables of the running operation
  calls,        \* the mutating network calls the running operation has issued
  result,       \* how the running operation returned: its value or its error
  pre,          \* the remote state when the running operation started
  nops          \* the operations started so far

vars == <<files, nextFileId, asst, stores, nextStoreId, attachments,
          pc, args, loc, calls, result, pre, nops>>

remote == <<files, nextFileId, asst, stores, nextStoreId, attachments>>

(* --------------------------- sequences --------------------------------- *)

Range(s) == {s[k] : k \in DOMAIN s}

\* Array.prototype.includes
Includes(s, x) == \E k \in DOMAIN s : s[k] = x

\* Array.prototype.filter((id) => id !== x)
RECURSIVE Without(_, _)
Without(s, x) ==
  IF s = <<>> THEN <<>>
  ELSE IF Head(s) = x THEN Without(Tail(s), x)
       ELSE <<Head(s)>> \o Without(Tail(s), x)

\* the sequences of distinct elements of S of length at most n
DistinctSeqs(S, n) ==
  {s \in UNION {[1..k -> S] : k \in 0..n} :
     \A p, q \in DOMAIN s : p # q => s[p] # s[q]}

(* --------------------------- file records ------------------------------ *)

NoFile == [id |-> 0, filename |-> ""]

\* Array.prototype.find((f) => f.filename === name): the first match or none
FindByName(fs, name) ==
  IF \E k \in DOMAIN fs : fs[k].filename = name
  THEN fs[CHOOSE k \in DOMAIN fs :
            /\ fs[k].filename = name
            /\ \A m \in DOMAIN fs : fs[m].filename = name => k <= m]
  ELSE NoFile

FileIds(fs) == {fs[k].id : k \in DOMAIN fs}

RECURSIVE RemoveFile(_, _)
RemoveFile(fs, id) ==
  IF fs = <<>> THEN <<>>
  ELSE IF Head(fs).id = id THEN RemoveFile(Tail(fs), id)
       ELSE <<Head(fs)>> \o RemoveFile(Tail(fs), id)

(* ------------------------------ errors --------------------------------- *)

NoError == [call |-> "none", phase |-> "none"]
Err(call, phase) == [call |-> call, phase |-> phase]

NoResult == [done |-> FALSE, error |-> NoError]
Returned == [done |-> TRUE, error |-> NoError]
Raised(e) == [done |-> TRUE, error |-> e]

(* ----------------------------- assistant ------------------------------- *)

\* a tool_resources entry: absent (undefined), or present with its id list
Absent == [present |-> FALSE, ids |-> <<>>]
Entry(ids) == [present |-> TRUE, ids |-> ids]

\* tools: [{ type: 'code_interpreter' }, { type: 'file_search' }]
CreatedTools == {"code_interpreter", "file_search"}

\* assistant.tool_resources?.code_interpreter?.file_ids || []
CodeFilesOf(a) == IF a.code_interpreter.present THEN a.code_interpreter.ids ELSE <<>>

\* the vector store id of an assistant, 0 for undefined
tryGetVectorStoreId(a) ==
  IF "file_search" \notin a.tools THEN 0
  ELSE IF ~a.file_search.present THEN 0
  ELSE IF Len(a.file_search.ids) = 0 THEN 0
  ELSE a.file_search.ids[1]

(* ------------------------ request bodies ------------------------------- *)

\* a JSON body is a function from the keys it holds to their values
EmptyBody == [k \in {} |-> 0]
Has(body, k) == k \in DOMAIN body
With(body, k, v) == [x \in DOMAIN body \cup {k} |-> IF x = k THEN v ELSE body[x]]

\* JavaScript truthiness of an optional string argument: undefined and '' are falsy
TruthyString(a, k) == Has(a, k) /\ a[k] # ""

\* a slip: tool_resources is sent whole, the entries the caller did not give as
\* empty lists
UpdateBodyOverwriting(a) ==
  LET b1 == IF Has(a, "name") /\ a.name # "" THEN With(EmptyBody, "name", a.name)
            ELSE EmptyBody
      b2 == IF Has(a, "model") /\ a.model # "" THEN With(b1, "model", a.model) ELSE b1
      b3 == IF Has(a, "description") /\ a.description # ""
            THEN With(b2, "description", a.description) ELSE b2
      b4 == IF Has(a, "instructions") /\ a.instructions # ""
            THEN With(b3, "instructions", a.instructions) ELSE b3
  IN With(b4, "tool_resources",
          With(With(EmptyBody, "file_search",
                    IF Has(a, "vectorStoreId") /\ a.vectorStoreId # 0
                    THEN <<a.vectorStoreId>> ELSE <<>>),
               "code_interpreter",
               IF Has(a, "codeFileIds") THEN a.codeFileIds ELSE <<>>))

\* the body updateAssistant sends for its arguments
UpdateBody(a) ==
  LET b1 == IF TruthyString(a, "name") THEN With(EmptyBody, "name", a.name) ELSE EmptyBody
      b2 == IF TruthyString(a, "model") THEN With(b1, "model", a.model) ELSE b1
      b3 == IF TruthyString(a, "description")
            THEN With(b2, "description", a.description) ELSE b2
      b4 == IF TruthyString(a, "instructions")
            THEN With(b3, "instructions", a.instructions) ELSE b3
      \* a vector store id is a non-empty string: 0 stands for undefined
      b5 == IF Has(a, "vectorStoreId") /\ a.vectorStoreId # 0
            THEN With(b4, "tool_resources",
                      With(EmptyBody, "file_search", <<a.vectorStoreId>>))
            ELSE b4
      \* an array is truthy, also the empty one
      b6 == IF Has(a, "codeFileIds")
            THEN With(b5, "tool_resources",
                      With(IF Has(b5, "tool_resources") THEN b5.tool_resources
                           ELSE EmptyBody,
                           "code_interpreter", a.codeFileIds))
            ELSE b5
  IN b6

\* the body attachCodeFile and detachCodeFile send: the code list alone
CodeBody(codes) ==
  With(EmptyBody, "tool_resources", With(EmptyBody, "code_interpreter", codes))

\* POST /assistants/{id} on the remote: every key of the body replaces the
\* assistant's value; a tool_resources key replaces that tool's entry only
ApplyBody(a, body) ==
  LET tr == IF Has(body, "tool_resources") THEN body.tool_resources ELSE EmptyBody
  IN [a EXCEPT
        !.name = IF Has(body, "name") THEN body.name ELSE @,
        !.model = IF Has(body, "model") THEN body.model ELSE @,
        !.description = IF Has(body, "description") THEN body.description ELSE @,
        !.instructions = IF Has(body, "instructions") THEN body.instructions ELSE @,
        !.file_search = IF Has(tr, "file_search") THEN Entry(tr.file_search) ELSE @,
        !.code_interpreter =
           IF Has(tr, "code_interpreter") THEN Entry(tr.code_interpreter) ELSE @]

(* ------------------------- the call log -------------------------------- *)

Call(name, arg, ok, body) == [call |-> name, arg |-> arg, ok |-> ok, body |-> body]

Log(name, arg, ok) == calls' = Append(calls, Call(name, arg, ok, EmptyBody))
LogBody(name, arg, ok, body) == calls' = Append(calls, Call(name, arg, ok, body))

(* --------------------------- initial state ----------------------------- *)

NoArgs == [op |-> "none"]

NoLoc ==
  [assistant |-> [id |-> 0],
   originalCodeFiles |-> FALSE,
   vStoreId |-> 0,
   previouslyUploadedFiles |-> <<>>,
   newlyUploadedFiles |-> <<>>,
   attachedFiles |-> <<>>,
   vectorStoreFiles |-> {},
   existingFile |-> NoFile,
   fileData |-> 0,
   fileId |-> 0,
   destinations |-> <<>>,
   newAssistant |-> [id |-> 0],
   i |-> 0,
   j |-> 0,
   d |-> 0,
   caught |-> NoError,
   after |-> 0,
   listed |-> <<>>,
   resp |-> EmptyBody,
   assistantId |-> 0]

\* the assistant as createAssistant leaves it: both tools enabled, no vector store
NewAssistant(ci, fs) ==
  [id |-> 1, name |-> "demo", model |-> "x", description |-> "", instructions |-> "",
   tools |-> CreatedTools, file_search |-> fs, code_interpreter |-> ci]

FileA == [id |-> 1, filename |-> "a"]
FileB == [id |-> 2, filename |-> "b"]

Account(fs, ci, vs, att) ==
  [files |-> fs, asst |-> NewAssistant(ci, Entry(IF vs = {} THEN <<>> ELSE <<1>>)),
   stores |-> vs, attachments |-> att]

\* the remote accounts an invocation may find.  A fresh assistant, whose answer
\* carries a code_interpreter entry or none; and the accounts that earlier
\* invocations leave behind:
\*   "a" uploaded to the vector store             (uploadFile a)
\*   "a" uploaded to the code list                (uploadFile a, code)
\*   "a" uploaded to the code list by uploadDir, which also links a store
\*   "a" in the store and in the code list        (uploadFile a, attachCodeFile)
\*   "a" in the store, "b" in the code list       (uploadFile a; uploadFile b, code)
\*   "a" and "b" in the store                     (uploadDir [a, b])
Accounts ==
  {Account(<<>>, ci, {}, {}) : ci \in {Absent, Entry(<<>>)}}
  \cup {Account(<<FileA>>, ci, {1}, {<<1, 1>>}) : ci \in {Absent, Entry(<<>>)}}
  \cup {Account(<<FileA>>, Entry(<<1>>), {}, {}),
        Account(<<FileA>>, Entry(<<1>>), {1}, {}),
        Account(<<FileA>>, Entry(<<1>>), {1}, {<<1, 1>>}),
        Account(<<FileA, FileB>>, Entry(<<2>>), {1}, {<<1, 1>>}),
        Account(<<FileA, FileB>>, Entry(<<>>), {1}, {<<1, 1>>, <<1, 2>>})}

\* the remote state, as the running operation finds it when it starts
Snapshot == [files |-> files, asst |-> asst, attachments |-> attachments,
             stores |-> stores, nextFileId |-> nextFileId, nextStoreId |-> nextStoreId]

Init ==
  /\ \E acc \in Accounts :
       /\ files = acc.files
       /\ asst = acc.asst
       /\ stores = acc.stores
       /\ attachments = acc.attachments
       /\ nextFileId = Len(acc.files) + 1
       /\ nextStoreId = Cardinality(acc.stores) + 1
       /\ pre = [files |-> acc.files, asst |-> acc.asst,
                  attachments |-> acc.attachments, stores |-> acc.stores,
                  nextFileId |-> Len(acc.files) + 1,
                  nextStoreId |-> Cardinality(acc.stores) + 1]
  /\ pc = "idle"
  /\ args = NoArgs
  /\ loc = NoLoc
  /\ calls = <<>>
  /\ result = NoResult
  /\ nops = 0

(* ------------------------ starting, returning -------------------------- *)

\* an operation starts: a fresh invocation of the tool
Begin(a, first) ==
  /\ pc = "idle"
  /\ nops < MaxOps
  /\ nops' = nops + 1
  /\ args' = a
  /\ loc' = NoLoc
  /\ calls' = <<>>
  /\ result' = NoResult
  /\ pre' = Snapshot
  /\ pc' = first
  /\ UNCHANGED remote

\* the operation returns its value
Finish == pc' = "done" /\ result' = Returned

\* the operation raises e to its caller
Throw(e) == pc' = "done" /\ result' = Raised(e)

\* the operation goes on at p
Goto(p) == pc' = p /\ UNCHANGED result

\* the invocation ends; the next one starts from nothing but the remote state
Exit ==
  /\ pc = "done"
  /\ pc' = "idle"
  /\ args' = NoArgs
  /\ loc' = NoLoc
  /\ calls' = <<>>
  /\ result' = NoResult
  /\ pre' = Snapshot
  /\ UNCHANGED <<remote, nops>>

(* ------------------------- remote effects ------------------------------ *)

\* POST /files: the remote stores a new record under a fresh id
RemoteUpload(name) ==
  /\ files' = Append(files, [id |-> nextFileId, filename |-> name])
  /\ nextFileId' = nextFileId + 1

\* DELETE /files/{id}: the record goes; attachments and code lists keep the id
RemoteDeleteFile(id) == files' = RemoveFile(files, id)

\* POST /vector_stores
RemoteCreateStore ==
  /\ stores' = stores \cup {nextStoreId}
  /\ nextStoreId' = nextStoreId + 1

\* POST /vector_stores/{id}/files: the attachment record has the file's id
RemoteAttach(vs, id) == attachments' = attachments \cup {<<vs, id>>}

\* DELETE /vector_stores/{id}/files/{file id}
RemoteDetach(vs, id) == attachments' = attachments \ {<<vs, id>>}

\* POST /assistants/{id}
RemoteUpdate(body) == asst' = ApplyBody(asst, body)

\* GET /vector_stores/{id}/files, as the ids of the attachment records
RemoteListFiles(vs) == {a[2] : a \in {x \in attachments : x[1] = vs}}

(* --------------------- AssistantClient.attachCodeFile ------------------ *)

\* the local assistant after codes.push(fileId): the array of a present entry is
\* the assistant's own and grows in place; `|| []` makes a fresh array otherwise
Pushed(a, fileId) ==
  IF a.code_interpreter.present
  THEN [a EXCEPT !.code_interpreter.ids = Append(@, fileId)]
  ELSE a

\* a slip: the list is not searched, the id is pushed and sent in any case
AlreadyAttachedNever(a, fileId) == FALSE

\* if (codes.includes(fileId)) return assistant: nothing to attach
AlreadyAttached(a, fileId) == Includes(CodeFilesOf(a), fileId)

\* if (!codes.includes(fileId)) return assistant: nothing to detach
NotAttached(a, fileId) == ~Includes(CodeFilesOf(a), fileId)

\* a slip: the list is started anew, the new id alone is sent
AttachCodesAlone(a, fileId) == <<fileId>>

\* the list attachCodeFile sends
AttachCodes(a, fileId) == Append(CodeFilesOf(a), fileId)

\* the list detachCodeFile sends
DetachCodes(a, fileId) == Without(CodeFilesOf(a), fileId)

(* ------------------- createVectorStoreIfNotExists ---------------------- *)

\* where uploadFile and uploadDir go on once the store id is known
AfterStore ==
  IF args.op = "uploadFile" THEN Goto("uf_attach")
  ELSE IF Len(args.localFiles) = 0
       THEN IF args.overwrite THEN Goto("ud_ow_list") ELSE Finish
       ELSE Goto("ud_upload")

\* const store = await this.vectorStoreClient.create(assistant.name)
CreateStore ==
  /\ pc = "cv_create"
  /\ \/ /\ RemoteCreateStore
        /\ Log("createStore", nextStoreId, TRUE)
        /\ loc' = [loc EXCEPT !.vStoreId = nextStoreId]
        /\ Goto("cv_link")
     \/ /\ Log("createStore", 0, FALSE)
        /\ Throw(Err("createStore", "store"))
        /\ UNCHANGED <<stores, nextStoreId, loc>>
  /\ UNCHANGED <<files, nextFileId, asst, attachments, args, pre, nops>>

\* await this.assistantClient.updateAssistant(assistant.id, { vectorStoreId })
LinkStore ==
  /\ pc = "cv_link"
  /\ LET body == UpdateBody([vectorStoreId |-> loc.vStoreId]) IN
     \/ /\ RemoteUpdate(body)
        /\ LogBody("update", 0, TRUE, body)
        /\ AfterStore
     \/ /\ LogBody("update", 0, FALSE, body)
        /\ Throw(Err("updateAssistant", "store"))
        /\ UNCHANGED asst
  /\ UNCHANGED <<files, nextFileId, stores, nextStoreId, attachments, args, loc, pre, nops>>

createVectorStoreIfNotExists == CreateStore \/ LinkStore

(* ----------------------------- uploadFile ------------------------------ *)

UploadFileStart ==
  /\ pc = "idle"
  /\ \E name \in Names, ow \in BOOLEAN, dest \in {"file", "code"} :
       Begin([op |-> "uploadFile", fileName |-> name, overwrite |-> ow,
              fileDestination |-> dest], "uf_assistant")

\* const assistant = await this.assistantClient.assistant(assistantId)
UploadFileGetAssistant ==
  /\ pc = "uf_assistant"
  /\ \/ /\ loc' = [loc EXCEPT !.assistant = asst]
        /\ pc' = "uf_search"
        /\ UNCHANGED result
     \/ /\ Throw(Err("assistant", "get"))
        /\ UNCHANGED loc
  /\ UNCHANGED <<remote, args, calls, pre, nops>>

\* a slip: the overwrite flag is not looked at, an existing file is always replaced
MustRefuseNever(existingFile, overwrite) == FALSE

\* if (existingFile) { if (!overwrite) throw new Error(..already exists..)
MustRefuse(existingFile, overwrite) == existingFile # NoFile /\ ~overwrite

\* const existingFile = await this.fileClient.search(fileName), and the
\* collision check that follows it
UploadFileSearch ==
  /\ pc = "uf_search"
  /\ \/ LET found == FindByName(files, args.fileName) IN
          /\ loc' = [loc EXCEPT !.existingFile = found]
          /\ IF MustRefuse(found, args.overwrite)
             THEN Throw(Err("exists", "check"))
             ELSE /\ pc' = IF found # NoFile THEN "uf_delete" ELSE "uf_upload"
                  /\ UNCHANGED result
     \/ /\ Throw(Err("search", "check"))
        /\ UNCHANGED loc
  /\ UNCHANGED <<remote, args, calls, pre, nops>>

\* await this.fileClient.delete(existingFile.id)
UploadFileDelete ==
  /\ pc = "uf_delete"
  /\ \/ /\ RemoteDeleteFile(loc.existingFile.id)
        /\ Log("delete", loc.existingFile.id, TRUE)
        /\ pc' = "uf_upload"
        /\ UNCHANGED result
     \/ /\ Log("delete", loc.existingFile.id, FALSE)
        /\ Throw(Err("delete", "overwrite"))
        /\ UNCHANGED files
  /\ UNCHANGED <<nextFileId, asst, stores, nextStoreId, attachments, args, loc, pre, nops>>

\* const fileData = await this.fileClient.upload({ filePath, fileName })
UploadFileUpload ==
  /\ pc = "uf_upload"
  /\ \/ /\ RemoteUpload(args.fileName)
        /\ Log("upload", nextFileId, TRUE)
        /\ loc' = [loc EXCEPT !.fileData = nextFileId]
        /\ pc' = IF args.fileDestination = "code" THEN "uf_attach_code"
                 ELSE IF tryGetVectorStoreId(loc.assistant) = 0 THEN "cv_create"
                 ELSE "uf_attach"
        /\ UNCHANGED result
     \/ /\ Log("upload", 0, FALSE)
        /\ Throw(Err("upload", "upload"))
        /\ UNCHANGED <<files, nextFileId, loc>>
  /\ UNCHANGED <<asst, stores, nextStoreId, attachments, args, pre, nops>>

\* a slip: the failed attach is caught and logged, uploadFile returns the file
UploadFileFailedSwallowed(e) == Finish

\* no try stands around the steps of uploadFile: the error of the attach leaves
\* uploadFile as it is, nothing is undone
UploadFileFailed(e) == Throw(e)

\* await this.assistantClient.attachCodeFile(assistant, fileData.id)
UploadFileAttachCode ==
  /\ pc = "uf_attach_code"
  /\ IF AlreadyAttached(loc.assistant, loc.fileData)
     THEN /\ Finish
          /\ UNCHANGED <<asst, calls, loc>>
     ELSE LET body == CodeBody(AttachCodes(loc.assistant, loc.fileData)) IN
          /\ loc' = [loc EXCEPT !.assistant = Pushed(@, loc.fileData)]
          /\ \/ /\ RemoteUpdate(body)
                /\ LogBody("update", loc.fileData, TRUE, body)
                /\ Finish
             \/ /\ LogBody("update", loc.fileData, FALSE, body)
                /\ UploadFileFailed(Err("attachCodeFile", "attach"))
                /\ UNCHANGED asst
  /\ UNCHANGED <<files, nextFileId, stores, nextStoreId, attachments, args, pre, nops>>

\* a slip: the store id is read from the assistant fetched before the store was made
UploadFileStoreStale == tryGetVectorStoreId(loc.assistant)

\* the store uploadFile attaches to: the assistant's, or the one just created
UploadFileStore == IF loc.vStoreId # 0 THEN loc.vStoreId
                   ELSE tryGetVectorStoreId(loc.assistant)

\* await this.vectorStoreClient.attachFile({ file: fileData, vStoreId })
UploadFileAttach ==
  /\ pc = "uf_attach"
  /\ \/ /\ RemoteAttach(UploadFileStore, loc.fileData)
        /\ Log("attach", loc.fileData, TRUE)
        /\ Finish
     \/ /\ Log("attach", loc.fileData, FALSE)
        /\ UploadFileFailed(Err("attachFile", "attach"))
        /\ UNCHANGED attachments
  /\ UNCHANGED <<files, nextFileId, asst, stores, nextStoreId, args, loc, pre, nops>>

uploadFile ==
  \/ UploadFileStart
  \/ UploadFileGetAssistant
  \/ UploadFileSearch
  \/ UploadFileDelete
  \/ UploadFileUpload
  \/ UploadFileAttachCode
  \/ UploadFileAttach

(* ----------------------------- uploadDir ------------------------------- *)

\* the local files of the directory, in the order Deno.readDir yields them
Dirs == DistinctSeqs(Names, MaxDirLen)

UploadDirStart ==
  /\ pc = "idle"
  /\ \E dir \in Dirs, ow \in BOOLEAN, dest \in {"file", "code"} :
       Begin([op |-> "uploadDir", localFiles |-> dir, overwrite |-> ow,
              fileDestination |-> dest], "ud_stat")

\* Step 1: await Deno.stat(dirPath)
UploadDirStat ==
  /\ pc = "ud_stat"
  /\ \/ Goto("ud_list")
     \/ Throw(Err("stat", "check"))
  /\ UNCHANGED <<remote, args, loc, calls, pre, nops>>

\* a slip: only the first local file is checked against the remote files
CollidesFirstOnly(localFiles, previous) ==
  Len(localFiles) > 0 /\ FindByName(previous, localFiles[1]) # NoFile

\* some local file name is the filename of a previously uploaded file
Collides(localFiles, previous) ==
  \E k \in DOMAIN localFiles : FindByName(previous, localFiles[k]) # NoFile

\* Step 2 to 4: const previouslyUploadedFiles = await this.fileClient.list(), the
\* enumeration of the directory, and the check for files that already exist
UploadDirList ==
  /\ pc = "ud_list"
  /\ \/ /\ loc' = [loc EXCEPT !.previouslyUploadedFiles = files]
        /\ IF ~args.overwrite /\ Collides(args.localFiles, files)
           THEN Throw(Err("exists", "check"))
           ELSE Goto("ud_assistant")
     \/ /\ Throw(Err("list", "check"))
        /\ UNCHANGED loc
  /\ UNCHANGED <<remote, args, calls, pre, nops>>

\* let assistant = await this.assistantClient.assistant(assistantId);
\* const originalCodeFiles = assistant.tool_resources.code_interpreter?.file_ids:
\* undefined, or the very array the local assistant holds (no copy is made)
UploadDirGetAssistant ==
  /\ pc = "ud_assistant"
  /\ \/ /\ loc' = [loc EXCEPT !.assistant = asst,
                              !.originalCodeFiles = asst.code_interpreter.present,
                              !.vStoreId = tryGetVectorStoreId(asst),
                              !.i = 1]
        /\ IF tryGetVectorStoreId(asst) = 0 THEN Goto("cv_create") ELSE AfterStore
     \/ /\ Throw(Err("assistant", "get"))
        /\ UNCHANGED loc
  /\ UNCHANGED <<remote, args, calls, pre, nops>>

\* what originalCodeFiles reads as: the array is shared with the local assistant,
\* so it holds whatever attachCodeFile has pushed since
OriginalCodeFiles(l) == l.assistant.code_interpreter.ids

\* a slip: the overwrite pass is not kept behind the loop's success, it runs
\* from the catch block too
RollbackFromIntoOverwrite(l) ==
  IF args.overwrite THEN Goto("ud_ow_list")
  ELSE IF Len(l.newlyUploadedFiles) = 0 THEN Goto("ud_rb_update") ELSE Goto("ud_rb_delete")

\* the catch block is entered with e: the first pc of the rollback
RollbackFrom(l) ==
  IF Len(l.newlyUploadedFiles) = 0 THEN Goto("ud_rb_update") ELSE Goto("ud_rb_delete")

\* the loop goes to its next file, or ends
LoopFrom(i) ==
  IF i <= Len(args.localFiles) THEN Goto("ud_upload")
  ELSE IF args.overwrite THEN Goto("ud_ow_list") ELSE Finish

\* const resp = await this.fileClient.upload(..); newlyUploadedFiles.push(resp)
UploadDirUpload ==
  /\ pc = "ud_upload"
  /\ \/ /\ RemoteUpload(args.localFiles[loc.i])
        /\ Log("upload", nextFileId, TRUE)
        /\ loc' = [loc EXCEPT !.newlyUploadedFiles = Append(@, nextFileId)]
        /\ Goto("ud_attach")
     \/ /\ Log("upload", 0, FALSE)
        /\ loc' = [loc EXCEPT !.caught = Err("upload", "loop"), !.j = 1]
        /\ RollbackFrom(loc)
        /\ UNCHANGED <<files, nextFileId>>
  /\ UNCHANGED <<asst, stores, nextStoreId, attachments, args, pre, nops>>

\* a slip: the attach takes the first uploaded file, not the one just uploaded
RespFirst(l) == l.newlyUploadedFiles[1]

\* the file the loop has just uploaded
Resp(l) == l.newlyUploadedFiles[Len(l.newlyUploadedFiles)]

\* await this.assistantClient.attachCodeFile(assistant, resp.id)
UploadDirAttachCode ==
  /\ pc = "ud_attach"
  /\ args.fileDestination = "code"
  /\ IF AlreadyAttached(loc.assistant, Resp(loc))
     THEN /\ loc' = [loc EXCEPT !.i = @ + 1]
          /\ LoopFrom(loc.i + 1)
          /\ UNCHANGED <<asst, calls>>
     ELSE LET body == CodeBody(AttachCodes(loc.assistant, Resp(loc)))
              pushed == Pushed(loc.assistant, Resp(loc))
          IN \/ /\ RemoteUpdate(body)
                /\ LogBody("update", Resp(loc), TRUE, body)
                /\ loc' = [loc EXCEPT !.assistant = pushed, !.i = @ + 1]
                /\ LoopFrom(loc.i + 1)
             \/ /\ LogBody("update", Resp(loc), FALSE, body)
                /\ loc' = [loc EXCEPT !.assistant = pushed,
                                      !.caught = Err("attachCodeFile", "loop"),
                                      !.j = 1]
                /\ RollbackFrom(loc)
                /\ UNCHANGED asst
  /\ UNCHANGED <<files, nextFileId, stores, nextStoreId, attachments, args, pre, nops>>

\* const f = await this.vectorStoreClient.attachFile(..); attachedFiles.push(f)
UploadDirAttachFile ==
  /\ pc = "ud_attach"
  /\ args.fileDestination # "code"
  /\ \/ /\ RemoteAttach(loc.vStoreId, Resp(loc))
        /\ Log("attach", Resp(loc), TRUE)
        /\ loc' = [loc EXCEPT !.attachedFiles = Append(@, Resp(loc)), !.i = @ + 1]
        /\ LoopFrom(loc.i + 1)
     \/ /\ Log("attach", Resp(loc), FALSE)
        /\ loc' = [loc EXCEPT !.caught = Err("attachFile", "loop"), !.j = 1]
        /\ RollbackFrom(loc)
        /\ UNCHANGED attachments
  /\ UNCHANGED <<files, nextFileId, asst, stores, nextStoreId, args, pre, nops>>

\* the rollback goes to its next uploaded file, or to the restore of the code list
RollbackNext(j) ==
  IF j <= Len(loc.newlyUploadedFiles) THEN Goto("ud_rb_delete") ELSE Goto("ud_rb_update")

\* a slip: the attachment records are matched by another field than the id, so
\* no uploaded file is found among them
NeedsDetachNoMatch(l, file) == FALSE

\* for (const f of attachedFiles) { if (f.id === file.id) ..: the file was attached
NeedsDetach(l, file) == Includes(l.attachedFiles, file)

\* a slip: the failure of a cleanup call is swallowed and the rollback goes on
\* with the next uploaded file
CleanupFailedContinues(l, e) ==
  /\ loc' = [l EXCEPT !.j = @ + 1]
  /\ RollbackNext(l.j + 1)

\* the cleanup calls stand unguarded in the catch block: the error of one of
\* them leaves uploadDir at once
CleanupFailed(l, e) == Throw(e) /\ UNCHANGED loc

\* for (const file of newlyUploadedFiles) { await this.fileClient.delete(file.id)
UploadDirRollbackDelete ==
  /\ pc = "ud_rb_delete"
  /\ LET file == loc.newlyUploadedFiles[loc.j] IN
     \/ /\ RemoteDeleteFile(file)
        /\ Log("delete", file, TRUE)
        /\ IF NeedsDetach(loc, file)
           THEN Goto("ud_rb_detach") /\ UNCHANGED loc
           ELSE loc' = [loc EXCEPT !.j = @ + 1] /\ RollbackNext(loc.j + 1)
     \/ /\ Log("delete", file, FALSE)
        /\ CleanupFailed(loc, Err("delete", "rollback"))
        /\ UNCHANGED files
  /\ UNCHANGED <<nextFileId, asst, stores, nextStoreId, attachments, args, pre, nops>>

\* if (f.id === file.id) { await this.vectorStoreClient.detachFile(..); break }
UploadDirRollbackDetach ==
  /\ pc = "ud_rb_detach"
  /\ LET file == loc.newlyUploadedFiles[loc.j] IN
     \/ /\ RemoteDetach(loc.vStoreId, file)
        /\ Log("detach", file, TRUE)
        /\ loc' = [loc EXCEPT !.j = @ + 1]
        /\ RollbackNext(loc.j + 1)
     \/ /\ Log("detach", file, FALSE)
        /\ CleanupFailed(loc, Err("detachFile", "rollback"))
        /\ UNCHANGED attachments
  /\ UNCHANGED <<files, nextFileId, asst, stores, nextStoreId, args, pre, nops>>

\* the arguments of the rollback's updateAssistant: { codeFileIds: originalCodeFiles }
RestoreArgs(l) ==
  IF l.originalCodeFiles THEN With(EmptyBody, "codeFileIds", OriginalCodeFiles(l))
  ELSE EmptyBody

\* await this.assistantClient.updateAssistant(assistantId, {codeFileIds}); throw e
UploadDirRollbackUpdate ==
  /\ pc = "ud_rb_update"
  /\ LET body == UpdateBody(RestoreArgs(loc)) IN
     \/ /\ RemoteUpdate(body)
        /\ LogBody("update", 0, TRUE, body)
        /\ Throw(loc.caught)
     \/ /\ LogBody("update", 0, FALSE, body)
        /\ Throw(Err("updateAssistant", "rollback"))
        /\ UNCHANGED asst
  /\ UNCHANGED <<files, nextFileId, stores, nextStoreId, attachments, args, loc, pre, nops>>

(* --------------------- detachFileCore (shared) ------------------------- *)

\* a slip: the vector-store files are not searched, the code list alone is
tryGetFileDestinationCodeOnly(a, vsFiles, fileId) ==
  IF Includes(CodeFilesOf(a), fileId) THEN <<"code">> ELSE <<>>

\* a slip: `else if` for the code list, so that one destination at most is found
tryGetFileDestinationFirst(a, vsFiles, fileId) ==
  IF fileId \in vsFiles THEN <<"file">>
  ELSE IF Includes(CodeFilesOf(a), fileId) THEN <<"code">> ELSE <<>>

\* the destinations that reference the file: the vector store first, then the code list
tryGetFileDestination(a, vsFiles, fileId) ==
  (IF fileId \in vsFiles THEN <<"file">> ELSE <<>>)
    \o (IF Includes(CodeFilesOf(a), fileId) THEN <<"code">> ELSE <<>>)

\* the next local file of the overwrite pass that has a previously uploaded
\* namesake, from index k on; 0 when there is none
OverwriteTarget(l, k) ==
  LET hits == {m \in DOMAIN args.localFiles :
                 m >= k /\ FindByName(l.previouslyUploadedFiles, args.localFiles[m]) # NoFile}
  IN IF hits = {} THEN 0 ELSE CHOOSE m \in hits : \A n \in hits : m <= n

\* the overwrite pass goes to its next namesake from index k on, or uploadDir returns
OverwriteFrom(l, k) ==
  /\ loc' = [l EXCEPT !.i = OverwriteTarget(l, k)]
  /\ IF OverwriteTarget(l, k) = 0 THEN Finish ELSE Goto("ud_ow_delete")

\* detachFileCore returns newAssistant: to detachFile's caller (the delete command
\* goes on to deleteFile), or into the overwrite pass
\* (assistant = await this.detachFileCore(..))
DetachCoreReturn(l) ==
  IF args.op = "uploadDir"
  THEN OverwriteFrom([l EXCEPT !.assistant = l.newAssistant], l.i + 1)
  ELSE IF args.op = "delete" THEN loc' = l /\ Goto("del_delete")
  ELSE loc' = l /\ Finish

\* detachFileCore is entered: destinations computed, newAssistant = assistant
DetachCoreEnter(l, fileId) ==
  LET dests == tryGetFileDestination(l.assistant, l.vectorStoreFiles, fileId)
      l1 == [l EXCEPT !.fileId = fileId, !.destinations = dests, !.d = 1,
                      !.newAssistant = l.assistant]
  IN IF Len(dests) = 0 THEN DetachCoreReturn(l1)
     ELSE loc' = l1 /\ Goto("dc_detach")

\* the for loop over destinations goes on, or detachFileCore returns
DetachCoreNext(l) ==
  IF l.d < Len(l.destinations)
  THEN loc' = [l EXCEPT !.d = @ + 1] /\ Goto("dc_detach")
  ELSE DetachCoreReturn(l)

\* a slip: the failure is logged and thrown again
DetachCaughtRethrow(l) == loc' = l /\ Throw(Err("detachFile", "detach"))

\* catch (e) { console.error(..) }: the failure is logged and the loop goes on
DetachCaught(l) == DetachCoreNext(l)

\* destination 'file': await this.vectorStoreClient.detachFile({ fileId, vStoreId }),
\* skipped when the assistant has no store; a failure is caught and logged
DetachCoreVectorStore ==
  /\ pc = "dc_detach"
  /\ loc.destinations[loc.d] = "file"
  /\ LET vs == tryGetVectorStoreId(loc.assistant) IN
     IF vs = 0
     THEN /\ DetachCoreNext(loc)
          /\ UNCHANGED <<attachments, calls>>
     ELSE \/ /\ RemoteDetach(vs, loc.fileId)
             /\ Log("detach", loc.fileId, TRUE)
             /\ DetachCoreNext(loc)
          \/ /\ Log("detach", loc.fileId, FALSE)
             /\ DetachCaught(loc)
             /\ UNCHANGED attachments
  /\ UNCHANGED <<files, nextFileId, asst, stores, nextStoreId, args, pre, nops>>

\* destination 'code': newAssistant = await this.assistantClient.detachCodeFile(
\* assistant, fileId); a failure is caught and logged
DetachCoreCode ==
  /\ pc = "dc_detach"
  /\ loc.destinations[loc.d] = "code"
  /\ IF NotAttached(loc.assistant, loc.fileId)
     THEN /\ DetachCoreNext([loc EXCEPT !.newAssistant = loc.assistant])
          /\ UNCHANGED <<asst, calls>>
     ELSE LET body == CodeBody(DetachCodes(loc.assistant, loc.fileId)) IN
          \/ /\ RemoteUpdate(body)
             /\ LogBody("update", loc.fileId, TRUE, body)
             /\ DetachCoreNext([loc EXCEPT !.newAssistant = ApplyBody(asst, body)])
          \/ /\ LogBody("update", loc.fileId, FALSE, body)
             /\ DetachCaught(loc)
             /\ UNCHANGED asst
  /\ UNCHANGED <<files, nextFileId, stores, nextStoreId, attachments, args, pre, nops>>

detachFileCore == DetachCoreVectorStore \/ DetachCoreCode

(* ------------------- listVectorStoreFiles (shared) --------------------- *)

\* GET the assistant, then the attachment records of its store; [] without a store
listVectorStoreFiles ==
  IF tryGetVectorStoreId(asst) = 0 THEN {}
  ELSE RemoteListFiles(tryGetVectorStoreId(asst))

(* ---------------------- uploadDir, overwrite pass ---------------------- *)

\* const vectorStoreFiles = await this.listVectorStoreFiles(assistantId)
UploadDirOverwriteList ==
  /\ pc = "ud_ow_list"
  /\ \/ OverwriteFrom([loc EXCEPT !.vectorStoreFiles = listVectorStoreFiles], 1)
     \/ /\ Throw(Err("listVectorStoreFiles", "overwrite"))
        /\ UNCHANGED loc
  /\ UNCHANGED <<remote, args, calls, pre, nops>>

\* await this.fileClient.delete(existingFile.id);
\* assistant = await this.detachFileCore({ fileId: existingFile.id, .. })
UploadDirOverwriteDelete ==
  /\ pc = "ud_ow_delete"
  /\ LET existingFile == FindByName(loc.previouslyUploadedFiles, args.localFiles[loc.i]) IN
     \/ /\ RemoteDeleteFile(existingFile.id)
        /\ Log("delete", existingFile.id, TRUE)
        /\ DetachCoreEnter([loc EXCEPT !.existingFile = existingFile], existingFile.id)
     \/ /\ Log("delete", existingFile.id, FALSE)
        /\ Throw(Err("delete", "overwrite"))
        /\ UNCHANGED <<files, loc>>
  /\ UNCHANGED <<nextFileId, asst, stores, nextStoreId, attachments, args, pre, nops>>

uploadDir ==
  \/ UploadDirStart
  \/ UploadDirStat
  \/ UploadDirList
  \/ UploadDirGetAssistant
  \/ UploadDirUpload
  \/ UploadDirAttachCode
  \/ UploadDirAttachFile
  \/ UploadDirRollbackDelete
  \/ UploadDirRollbackDetach
  \/ UploadDirRollbackUpdate
  \/ UploadDirOverwriteList
  \/ UploadDirOverwriteDelete

(* ------------------------ detachFile, deleteFile ----------------------- *)

\* the file ids an operator may name: every id the remote has ever given
KnownFileIds == 1 .. (nextFileId - 1)

DetachFileStart ==
  \E fileId \in KnownFileIds :
    Begin([op |-> "detachFile", fileId |-> fileId], "df_assistant")

\* const assistant = await this.assistantClient.assistant(assistantId); the
\* remote knows the id of its assistant only (0: the caller named that assistant)
DetachFileGetAssistant ==
  /\ pc = "df_assistant"
  /\ \/ /\ loc.assistantId \in {0, asst.id}
        /\ loc' = [loc EXCEPT !.assistant = asst]
        /\ Goto("df_list")
     \/ /\ Throw(Err("assistant", "get"))
        /\ UNCHANGED loc
  /\ UNCHANGED <<remote, args, calls, pre, nops>>

\* const vectorStoreFiles = await this.listVectorStoreFiles(assistantId);
\* return this.detachFileCore({ fileId, assistant, vectorStoreFiles })
DetachFileList ==
  /\ pc = "df_list"
  /\ \/ DetachCoreEnter([loc EXCEPT !.vectorStoreFiles = listVectorStoreFiles],
                        args.fileId)
     \/ /\ Throw(Err("listVectorStoreFiles", "get"))
        /\ UNCHANGED loc
  /\ UNCHANGED <<remote, args, calls, pre, nops>>

detachFile == DetachFileStart \/ DetachFileGetAssistant \/ DetachFileList

DeleteFileStart ==
  \E fileId \in KnownFileIds :
    Begin([op |-> "deleteFile", fileId |-> fileId], "del_delete")

\* return this.fileClient.delete(fileId); the remote rejects an id it does not hold
DeleteFileDelete ==
  /\ pc = "del_delete"
  /\ \/ /\ args.fileId \in FileIds(files)
        /\ RemoteDeleteFile(args.fileId)
        /\ Log("delete", args.fileId, TRUE)
        /\ Finish
     \/ /\ Log("delete", args.fileId, FALSE)
        /\ Throw(Err("delete", "delete"))
        /\ UNCHANGED files
  /\ UNCHANGED <<nextFileId, asst, stores, nextStoreId, attachments, args, loc, pre, nops>>

deleteFile == DeleteFileStart \/ DeleteFileDelete

(* -------------------------- command 'delete' --------------------------- *)

\* an assistant id as the command line or the environment gives it: none (0),
\* the id of the account's assistant (1), or the id of no assistant (2)
AssistantIds == {0, 1, 2}

\* the target assistant id of a file command; 0 when the command ends in
\* Deno.exit(1): both the option and the environment variable given, or neither
getAssistantId(options) ==
  IF options.assistantId # 0 /\ options.openaiAssistantId # 0 THEN 0
  ELSE IF options.assistantId # 0 THEN options.assistantId
  ELSE IF options.openaiAssistantId # 0 THEN options.openaiAssistantId
  ELSE 0

DeleteCommandStart ==
  /\ pc = "idle"
  /\ \E fileId \in KnownFileIds, opt \in AssistantIds, env \in AssistantIds :
       Begin([op |-> "delete", fileId |-> fileId,
              options |-> [assistantId |-> opt, openaiAssistantId |-> env]],
             "cmd_assistant_id")

\* const assistantId = getAssistantId(options); then, inside try,
\* await client.detachFile({ fileId, assistantId }); await client.deleteFile({ fileId });
\* an error of either is caught, printed, and the command ends in Deno.exit(1)
DeleteCommandGetAssistantId ==
  /\ pc = "cmd_assistant_id"
  /\ IF getAssistantId(args.options) = 0
     THEN Throw(Err("getAssistantId", "exit")) /\ UNCHANGED loc
     ELSE /\ loc' = [loc EXCEPT !.assistantId = getAssistantId(args.options)]
          /\ Goto("df_assistant")
  /\ UNCHANGED <<remote, args, calls, pre, nops>>

deleteCommand == DeleteCommandStart \/ DeleteCommandGetAssistantId

(* --------------------------- updateAssistant --------------------------- *)

\* the arguments an operator gives update-assistant: any of the optional fields
UpdateArgs ==
  {With(EmptyBody, "name", "demo2"), With(EmptyBody, "name", ""),
   With(EmptyBody, "model", "y"),
   With(EmptyBody, "description", "d"),
   With(EmptyBody, "instructions", "i"),
   With(EmptyBody, "codeFileIds", <<>>),
   With(With(EmptyBody, "name", "demo2"), "model", "y"),
   EmptyBody}
  \cup {With(EmptyBody, "vectorStoreId", vs) : vs \in stores}
  \cup {With(EmptyBody, "codeFileIds", <<id>>) : id \in KnownFileIds}
  \cup {With(With(EmptyBody, "vectorStoreId", vs), "codeFileIds", <<id>>) :
          vs \in stores, id \in KnownFileIds}

UpdateAssistantStart ==
  \E a \in UpdateArgs :
    Begin([op |-> "updateAssistant", update |-> a], "ua_update")

\* return this.assistantClient.updateAssistant(assistantId, args)
UpdateAssistantUpdate ==
  /\ pc = "ua_update"
  /\ LET body == UpdateBody(args.update) IN
     \/ /\ RemoteUpdate(body)
        /\ LogBody("update", 0, TRUE, body)
        /\ Finish
     \/ /\ LogBody("update", 0, FALSE, body)
        /\ Throw(Err("updateAssistant", "update"))
        /\ UNCHANGED asst
  /\ UNCHANGED <<files, nextFileId, stores, nextStoreId, attachments, args, loc, pre, nops>>

updateAssistant == UpdateAssistantStart \/ UpdateAssistantUpdate

(* ------------- AssistantClient.attachCodeFile / detachCodeFile --------- *)

\* the two methods called on their own, with an assistant just fetched
CodeFileStart ==
  \E fileId \in KnownFileIds, method \in {"attachCodeFile", "detachCodeFile"} :
    Begin([op |-> method, fileId |-> fileId], "cf_assistant")

CodeFileGetAssistant ==
  /\ pc = "cf_assistant"
  /\ \/ /\ loc' = [loc EXCEPT !.assistant = asst]
        /\ Goto("cf_call")
     \/ /\ Throw(Err("assistant", "get"))
        /\ UNCHANGED loc
  /\ UNCHANGED <<remote, args, calls, pre, nops>>

\* attachCodeFile(assistant, fileId)
AttachCodeFile ==
  /\ pc = "cf_call"
  /\ args.op = "attachCodeFile"
  /\ IF AlreadyAttached(loc.assistant, args.fileId)
     THEN /\ Finish
          /\ UNCHANGED <<asst, calls, loc>>
     ELSE LET body == CodeBody(AttachCodes(loc.assistant, args.fileId)) IN
          /\ loc' = [loc EXCEPT !.assistant = Pushed(@, args.fileId)]
          /\ \/ /\ RemoteUpdate(body)
                /\ LogBody("update", args.fileId, TRUE, body)
                /\ Finish
             \/ /\ LogBody("update", args.fileId, FALSE, body)
                /\ Throw(Err("attachCodeFile", "attach"))
                /\ UNCHANGED asst
  /\ UNCHANGED <<files, nextFileId, stores, nextStoreId, attachments, args, pre, nops>>

\* detachCodeFile(assistant, fileId)
DetachCodeFile ==
  /\ pc = "cf_call"
  /\ args.op = "detachCodeFile"
  /\ IF NotAttached(loc.assistant, args.fileId)
     THEN /\ Finish
          /\ UNCHANGED <<asst, calls>>
     ELSE LET body == CodeBody(DetachCodes(loc.assistant, args.fileId)) IN
          \/ /\ RemoteUpdate(body)
             /\ LogBody("update", args.fileId, TRUE, body)
             /\ Finish
          \/ /\ LogBody("update", args.fileId, FALSE, body)
             /\ Throw(Err("detachCodeFile", "detach"))
             /\ UNCHANGED asst
  /\ UNCHANGED <<files, nextFileId, stores, nextStoreId, attachments, args, loc, pre, nops>>

codeFile == CodeFileStart \/ CodeFileGetAssistant \/ AttachCodeFile \/ DetachCodeFile

(* ------------------------------- all ----------------------------------- *)

Next ==
  \/ uploadFile
  \/ createVectorStoreIfNotExists
  \/ uploadDir
  \/ detachFileCore
  \/ detachFile
  \/ deleteFile
  \/ deleteCommand
  \/ updateAssistant
  \/ codeFile
  \/ Exit

Spec == Init /\ [][Next]_vars

(* ------------------------ reading a finished run ----------------------- *)

\* the running operation has returned or raised
Done(op) == pc = "done" /\ args.op = op

\* the positions of the call log that hold a call of this name for this id
CallsAt(name, id) == {k \in DOMAIN calls : calls[k].call = name /\ calls[k].arg = id}

\* the file ids the remote gave to uploads of the running operation
UploadedInRun == {calls[k].arg : k \in {m \in DOMAIN calls :
                                          calls[m].call = "upload" /\ calls[m].ok}}

\* the ids the running operation attached to a vector store
AttachedInRun == {calls[k].arg : k \in {m \in DOMAIN calls :
                                          calls[m].call = "attach" /\ calls[m].ok}}

\* the ids the running operation attached to the assistant's code list
AttachedToCodeInRun ==
  {calls[k].arg : k \in {m \in DOMAIN calls :
                           calls[m].call = "update" /\ calls[m].ok /\ calls[m].arg # 0}}

\* the upload loop of uploadDir failed: its catch block was entered
LoopFailed == Done("uploadDir") /\ loc.caught # NoError

\* the position of the call whose failure entered the catch block
FailedAt == CHOOSE k \in DOMAIN calls : ~calls[k].ok /\ \A m \in 1..(k - 1) : calls[m].ok

\* every call the rollback issued succeeded
CleanupSucceeded == \A k \in DOMAIN calls : k > FailedAt => calls[k].ok

\* no vector store holds an attachment of the file
Unattached(id) == \A a \in attachments : a[2] # id

(* ------------------------------- claims -------------------------------- *)

\* C1: when the upload loop of uploadDir failed at some file and every call of
\* the rollback succeeded, then at the return of uploadDir no file uploaded in
\* this run exists on the remote and none is attached to a vector store.
C1_RollbackRemovesUploads ==
  (LoopFailed /\ CleanupSucceeded) =>
     \A id \in UploadedInRun : id \notin FileIds(files) /\ Unattached(id)

\* reached: the second file's upload failed after the first was uploaded and
\* attached to the store, and the rollback went through
C1_Witness ==
  /\ LoopFailed /\ CleanupSucceeded
  /\ loc.caught = Err("upload", "loop")
  /\ UploadedInRun # {} /\ AttachedInRun # {}

\* C2: when uploadDir with the code destination failed at a file after earlier
\* files were attached, and the rollback went through, the assistant's remote
\* code list equals the list it had before uploadDir started.
C2_CodeListRestored ==
  (LoopFailed /\ CleanupSucceeded /\ args.fileDestination = "code"
     /\ AttachedToCodeInRun # {}) =>
     /\ CodeFilesOf(asst) = CodeFilesOf(pre.asst)
     /\ \A id \in UploadedInRun : ~Includes(CodeFilesOf(asst), id)

\* the rollback of uploadDir ran all its steps: a delete was issued for every
\* uploaded file, a detach for every attached one, and the restoring update
RollbackExecuted ==
  /\ \A id \in UploadedInRun : \E k \in CallsAt("delete", id) : k > FailedAt
  /\ \A id \in AttachedInRun : \E k \in CallsAt("detach", id) : k > FailedAt
  /\ calls[Len(calls)].call = "update" /\ Len(calls) > FailedAt

\* C3: when the upload loop of uploadDir failed, the error uploadDir raises is
\* the error of the failed upload or attach, and it is raised after the rollback
\* steps (deletes, detaches, restore of the code list) were executed.
C3_OriginalErrorAfterRollback ==
  LoopFailed => (result.error = loc.caught /\ RollbackExecuted)

\* C4: in the rollback of uploadDir, for every file uploaded in this run that
\* was attached to the vector store, the detach call is issued before the
\* delete call of that file.
C4_DetachBeforeDelete ==
  Done("uploadDir") =>
     \A id \in AttachedInRun :
        \A kd \in CallsAt("delete", id) :
           \E kt \in CallsAt("detach", id) : kt < kd

\* the remote is as it was when the running operation started
RemoteUntouched == Snapshot = pre

\* uploadFile's resolved name is the filename of a file the remote already held
NameTaken == \E m \in DOMAIN pre.files : pre.files[m].filename = args.fileName

\* C5: when uploadFile's name is the filename of an existing remote file and
\* overwrite is false, uploadFile raises and issues no upload and no other
\* mutating call, the remote staying as it was; when overwrite is true, every
\* upload call is issued after the stale file was deleted.
C5_NameCollisionPolicy ==
  (args.op = "uploadFile" /\ NameTaken) =>
     /\ (pc = "done" /\ ~args.overwrite) =>
           (result.error # NoError /\ calls = <<>> /\ RemoteUntouched)
     /\ args.overwrite =>
           \A k \in DOMAIN calls : calls[k].call = "upload" =>
              \E m \in CallsAt("delete", FindByName(pre.files, args.fileName).id) :
                 m < k /\ calls[m].ok

\* reached: an overwriting uploadFile deleted the stale file and then uploaded
C5_Witness ==
  /\ Done("uploadFile") /\ NameTaken /\ args.overwrite
  /\ Len(calls) >= 2 /\ calls[1].call = "delete" /\ calls[2].call = "upload"
  /\ calls[2].ok

\* some local file of the directory has the filename of a file the remote held
DirNameTaken ==
  \E k \in DOMAIN args.localFiles, m \in DOMAIN pre.files :
     pre.files[m].filename = args.localFiles[k]

\* C6: when overwrite is false and some local filename of the directory is the
\* filename of an already uploaded file, uploadDir raises before any remote
\* mutation: no call is issued, no file uploaded, no store created or linked,
\* the assistant not modified.
C6_DirFailFast ==
  (Done("uploadDir") /\ ~args.overwrite /\ DirNameTaken) =>
     (result.error # NoError /\ calls = <<>> /\ RemoteUntouched)

\* reached: uploadDir refused a directory whose second file has a remote namesake
C6_Witness ==
  /\ Done("uploadDir") /\ ~args.overwrite
  /\ Len(args.localFiles) = 2
  /\ FindByName(pre.files, args.localFiles[1]) = NoFile
  /\ FindByName(pre.files, args.localFiles[2]) # NoFile
  /\ result.error = Err("exists", "check")

\* when detachFile started, the file was attached to the assistant's vector store
InStoreBefore ==
  /\ tryGetVectorStoreId(pre.asst) # 0
  /\ <<tryGetVectorStoreId(pre.asst), args.fileId>> \in pre.attachments

\* when detachFile started, the file was in the assistant's code list
InCodeBefore == Includes(CodeFilesOf(pre.asst), args.fileId)

\* detachFile returned for a file that was attached to both destinations
DetachedFromBoth ==
  Done("detachFile") /\ result = Returned /\ InStoreBefore /\ InCodeBefore

\* C7, as stated: a file attached to both the vector store and the code list,
\* when detached with detachFile, ends with zero references in both, even if
\* one of the two detach calls failed.
C7_ZeroReferencesInBoth ==
  DetachedFromBoth =>
     (Unattached(args.fileId) /\ ~Includes(CodeFilesOf(asst), args.fileId))

\* C7, amended: detachFile issues the detach call of both destinations whatever
\* the outcome of the first; a destination whose call succeeded ends with zero
\* references, a destination whose call failed keeps its reference.
C7_ZeroReferencesWhereDetached ==
  DetachedFromBoth =>
     /\ Len(calls) = 2
     /\ calls[1] = Call("detach", args.fileId, calls[1].ok, EmptyBody)
     /\ calls[2].call = "update" /\ calls[2].arg = args.fileId
     /\ calls[1].ok <=> Unattached(args.fileId)
     /\ calls[2].ok <=> ~Includes(CodeFilesOf(asst), args.fileId)

\* reached: the detach from the store failed, the one from the code list succeeded
C7_Witness == DetachedFromBoth /\ ~calls[1].ok /\ calls[2].ok

\* C8: in detachFile a failed detach call is caught: detachFile raises only
\* when one of its reads failed, never because of a detach call; and once the
\* reads succeeded, a detach call is issued for every destination that
\* referenced the file, also after another destination's call failed.
C8_BestEffortDetach ==
  Done("detachFile") =>
     /\ result.error \in {NoError, Err("assistant", "get"),
                          Err("listVectorStoreFiles", "get")}
     /\ result = Returned =>
          /\ InStoreBefore => CallsAt("detach", args.fileId) # {}
          /\ InCodeBefore => \E k \in CallsAt("update", args.fileId) :
                                calls[k].body = CodeBody(DetachCodes(pre.asst, args.fileId))

\* reached: both detach calls failed, and detachFile returned all the same
C8_Witness ==
  /\ Done("detachFile") /\ InStoreBefore /\ InCodeBefore
  /\ Len(calls) = 2 /\ ~calls[1].ok /\ ~calls[2].ok
  /\ result = Returned

\* the method was called: the fetch of its assistant argument succeeded
Called(method) == Done(method) /\ result.error # Err("assistant", "get")

\* C9: attachCodeFile with an id already in the assistant's code list, and
\* detachCodeFile with an id absent from it, return without error, issue no
\* network call and leave the list (and the whole remote) unchanged.
C9_CodeFileIdempotence ==
  /\ (Called("attachCodeFile") /\ InCodeBefore) =>
        (result = Returned /\ calls = <<>> /\ RemoteUntouched)
  /\ (Called("detachCodeFile") /\ ~InCodeBefore) =>
        (result = Returned /\ calls = <<>> /\ RemoteUntouched)

\* reached: attachCodeFile returned for an id that was in a non-empty list
C9_Witness ==
  Called("attachCodeFile") /\ InCodeBefore /\ result = Returned

\* the remote fields of an assistant that an update may patch
AssistantFields ==
  {"name", "model", "description", "instructions", "file_search", "code_interpreter"}

\* the remote field an argument of updateAssistant is meant for
FieldOf(k) == IF k = "vectorStoreId" THEN "file_search"
              ELSE IF k = "codeFileIds" THEN "code_interpreter" ELSE k

\* the remote fields a request body names
PatchKeys(body) ==
  (DOMAIN body \ {"tool_resources"})
    \cup (IF Has(body, "tool_resources") THEN DOMAIN body.tool_resources ELSE {})

\* C10: updateAssistant called with one field set sends a body that names no
\* other field, and afterwards every other field of the assistant, the sibling
\* tool_resources entry included, is as it was before.
C10_UpdateIsNonDestructive ==
  (Done("updateAssistant") /\ Cardinality(DOMAIN args.update) = 1) =>
     \A k \in DOMAIN args.update :
        /\ PatchKeys(calls[1].body) \subseteq {FieldOf(k)}
        /\ \A f \in AssistantFields \ {FieldOf(k)} : asst[f] = pre.asst[f]
        /\ asst.tools = pre.asst.tools /\ asst.id = pre.asst.id

\* reached: the code list of an assistant with a linked store was replaced, the
\* update naming the code file ids alone
C10_Witness ==
  /\ Done("updateAssistant") /\ DOMAIN args.update = {"codeFileIds"}
  /\ calls[1].ok
  /\ tryGetVectorStoreId(pre.asst) # 0
  /\ asst.code_interpreter # pre.asst.code_interpreter

(* ======================= cursor pagination ============================= *)
(* The four list methods (FileClient.list, AssistantClient.listAssistants,  *)
(* VectorStoreClient.list, VectorStoreClient.listFiles) run the same loop   *)
(* against their endpoint.  Here `files` holds the collection the endpoint  *)
(* serves, in server order; only the ids of its items matter to the loop.   *)

\* how many items the listed collection holds at most
MaxItems == 4

\* the largest page the remote serves (const limit = 100, scaled down)
MaxPage == 2

ListEndpoints == {"/files", "/assistants", "/vector_stores", "/vector_stores/{id}/files"}

\* the collections an endpoint may hold: distinct ids in any server order
Collections ==
  {[k \in DOMAIN s |-> [id |-> s[k], filename |-> "a"]] :
     s \in DistinctSeqs(1..MaxItems, MaxItems)}

\* the index of the item with this id; 0 for no cursor
IndexOf(coll, id) ==
  IF \E k \in DOMAIN coll : coll[k].id = id
  THEN CHOOSE k \in DOMAIN coll : coll[k].id = id
  ELSE 0

\* GET ..?limit=P&after=id on the remote: the PaginationBody of the items that
\* follow the cursor
ServePage(coll, after, limit) ==
  LET from == IndexOf(coll, after)
      to == IF from + limit < Len(coll) THEN from + limit ELSE Len(coll)
      data == SubSeq(coll, from + 1, to)
  IN [data |-> data,
      has_more |-> to < Len(coll),
      last_id |-> IF data = <<>> THEN 0 ELSE data[Len(data)].id]

\* a slip: has_more is not looked at, the first page is taken for the whole
NextAfterNever(page) == 0

\* after = resp.data!.has_more ? resp.data!.last_id : undefined
NextAfter(page) == IF page.has_more THEN page.last_id ELSE 0

PageInit ==
  /\ files \in Collections
  /\ nextFileId = MaxItems + 1
  /\ asst = NewAssistant(Absent, Entry(<<>>))
  /\ stores = {}
  /\ nextStoreId = 1
  /\ attachments = {}
  /\ pc = "ls_page"
  /\ \E e \in ListEndpoints, limit \in 1..MaxPage :
       args = [op |-> "list", endpoint |-> e, limit |-> limit]
  /\ loc = NoLoc
  /\ calls = <<>>
  /\ result = NoResult
  /\ pre = [files |-> files]
  /\ nops = 1

\* one turn of do { .. } while (after): a page is requested; non-200 throws,
\* else the page is appended and the cursor moves
ListPage ==
  /\ pc = "ls_page"
  /\ \/ LET page == ServePage(files, loc.after, args.limit) IN
          /\ loc' = [loc EXCEPT !.listed = @ \o page.data, !.after = NextAfter(page)]
          /\ IF NextAfter(page) # 0 THEN Goto("ls_page") ELSE Finish
     \/ /\ Throw(Err("list", "get"))
        /\ UNCHANGED loc
  /\ UNCHANGED <<remote, args, calls, pre, nops>>

PageNext == ListPage

\* the loop is the only thing running: it takes its next turn
PageSpec == PageInit /\ [][PageNext]_vars /\ WF_vars(PageNext)

\* C11: each list operation terminates, and when it returns (no request having
\* failed) it returns exactly the items of the remote collection in server
\* order, none twice and none left out, for every collection size and page
\* size, the empty collection and the exact multiples of the page size included.
C11_PaginationReturnsAll ==
  /\ [](Done("list") /\ result = Returned => loc.listed = files)
  /\ <>(pc = "done")

\* reached: a collection of two full pages and nothing more was listed
C11_Witness ==
  /\ Done("list") /\ result = Returned
  /\ args.limit > 1 /\ Len(files) = 2 * args.limit
  /\ Len(loc.listed) = Len(files)

(* ================= newAssistant, deleteAssistant ======================= *)
(* The account holds one assistant at most: asst is NoAssistant before it   *)
(* is created and after it is deleted.                                      *)

NoAssistant == [id |-> 0]

\* CreateAssistantArgs: the name and whether a vector store is wanted
CreateArgs == {[name |-> n, vectorStore |-> v] : n \in {"demo", "docs"}, v \in BOOLEAN}

\* the orders in which the remote may list the members of a collection
Orders(S) == {s \in DistinctSeqs(S, Cardinality(S)) : Len(s) = Cardinality(S)}

AssistantInit ==
  /\ \E acc \in Accounts \cup {[files |-> <<>>, asst |-> NoAssistant,
                                 stores |-> {}, attachments |-> {}]} :
       /\ files = acc.files
       /\ asst = acc.asst
       /\ stores = acc.stores
       /\ attachments = acc.attachments
       /\ nextFileId = Len(acc.files) + 1
       /\ nextStoreId = Cardinality(acc.stores) + 1
       /\ pre = [files |-> acc.files, asst |-> acc.asst,
                  attachments |-> acc.attachments, stores |-> acc.stores,
                  nextFileId |-> Len(acc.files) + 1,
                  nextStoreId |-> Cardinality(acc.stores) + 1]
  /\ pc = "idle"
  /\ args = NoArgs
  /\ loc = NoLoc
  /\ calls = <<>>
  /\ result = NoResult
  /\ nops = 0

NewAssistantStart ==
  /\ pc = "idle"
  /\ asst = NoAssistant
  /\ \E a \in CreateArgs : Begin([op |-> "newAssistant", create |-> a], "na_create")

\* a slip: the vectorStore flag is not looked at, no store is ever created
SkipsStoreAlways(a) == TRUE

\* if (!args.vectorStore) { console.log('Skipping vector store creation') }
SkipsStore(a) == ~a.vectorStore

\* const assistant = await this.assistantClient.createAssistant(args): the
\* remote answers with the new assistant, its tool_resources entries empty or absent
NewAssistantCreate ==
  /\ pc = "na_create"
  /\ \/ \E ci \in {Absent, Entry(<<>>)}, fs \in {Absent, Entry(<<>>)} :
          LET created == [NewAssistant(ci, fs) EXCEPT !.name = args.create.name] IN
          /\ asst' = created
          /\ LogBody("createAssistant", created.id, TRUE,
                     With(EmptyBody, "name", args.create.name))
          /\ loc' = [loc EXCEPT !.assistant = created]
          /\ IF SkipsStore(args.create) THEN Goto("na_get") ELSE Goto("na_store")
     \/ /\ LogBody("createAssistant", 0, FALSE, With(EmptyBody, "name", args.create.name))
        /\ Throw(Err("createAssistant", "create"))
        /\ UNCHANGED <<asst, loc>>
  /\ UNCHANGED <<files, nextFileId, stores, nextStoreId, attachments, args, pre, nops>>

\* const store = await this.vectorStoreClient.create(args.name)
NewAssistantStore ==
  /\ pc = "na_store"
  /\ \/ /\ RemoteCreateStore
        /\ LogBody("createStore", nextStoreId, TRUE, With(EmptyBody, "name", args.create.name))
        /\ loc' = [loc EXCEPT !.vStoreId = nextStoreId]
        /\ Goto("na_link")
     \/ /\ LogBody("createStore", 0, FALSE, With(EmptyBody, "name", args.create.name))
        /\ Throw(Err("createStore", "create"))
        /\ UNCHANGED <<stores, nextStoreId, loc>>
  /\ UNCHANGED <<files, nextFileId, asst, attachments, args, pre, nops>>

\* await this.assistantClient.updateAssistant(assistant.id, { vectorStoreId: store.id })
NewAssistantLink ==
  /\ pc = "na_link"
  /\ LET body == UpdateBody([vectorStoreId |-> loc.vStoreId]) IN
     \/ /\ RemoteUpdate(body)
        /\ LogBody("update", 0, TRUE, body)
        /\ Goto("na_get")
     \/ /\ LogBody("update", 0, FALSE, body)
        /\ Throw(Err("updateAssistant", "create"))
        /\ UNCHANGED asst
  /\ UNCHANGED <<files, nextFileId, stores, nextStoreId, attachments, args, loc, pre, nops>>

\* return await this.assistantClient.assistant(assistant.id)
NewAssistantGet ==
  /\ pc = "na_get"
  /\ \/ /\ loc' = [loc EXCEPT !.newAssistant = asst]
        /\ Finish
     \/ /\ Throw(Err("assistant", "get"))
        /\ UNCHANGED loc
  /\ UNCHANGED <<remote, args, calls, pre, nops>>

newAssistant ==
  \/ NewAssistantStart
  \/ NewAssistantCreate
  \/ NewAssistantStore
  \/ NewAssistantLink
  \/ NewAssistantGet

DeleteAssistantStart ==
  /\ pc = "idle"
  /\ \E inc \in BOOLEAN :
       Begin([op |-> "deleteAssistant", includeFiles |-> inc], "da_assistant")

\* a slip: includeFiles is not looked at, the files of a store are always deleted
DeletesFilesAlways(vStoreId, includeFiles) == vStoreId # 0

\* if (vStoreId && includeFiles)
DeletesFiles(vStoreId, includeFiles) == vStoreId # 0 /\ includeFiles

\* const assistant = await this.assistantClient.assistant(assistantId);
\* const vStoreId = AssistantClient.tryGetVectorStoreId(assistant)
DeleteAssistantGet ==
  /\ pc = "da_assistant"
  /\ \/ /\ asst # NoAssistant
        /\ loc' = [loc EXCEPT !.assistant = asst, !.vStoreId = tryGetVectorStoreId(asst)]
        /\ IF DeletesFiles(tryGetVectorStoreId(asst), args.includeFiles)
           THEN Goto("da_list") ELSE Goto("da_delete")
     \/ /\ Throw(Err("assistant", "get"))
        /\ UNCHANGED loc
  /\ UNCHANGED <<remote, args, calls, pre, nops>>

\* the loop over files goes to its next file, or on to the store
DeleteAssistantNext(l) ==
  IF l.i <= Len(l.listed) THEN Goto("da_file") ELSE Goto("da_store")

\* const files = await this.listVectorStoreFiles(assistantId), in server order
DeleteAssistantList ==
  /\ pc = "da_list"
  /\ \/ \E order \in Orders(listVectorStoreFiles) :
          /\ loc' = [loc EXCEPT !.listed = order, !.i = 1]
          /\ DeleteAssistantNext([loc EXCEPT !.listed = order, !.i = 1])
     \/ /\ Throw(Err("listVectorStoreFiles", "get"))
        /\ UNCHANGED loc
  /\ UNCHANGED <<remote, args, calls, pre, nops>>

\* for (const file of files) { await this.fileClient.delete(file.id) }; the
\* remote rejects an id it does not hold
DeleteAssistantFile ==
  /\ pc = "da_file"
  /\ LET file == loc.listed[loc.i] IN
     \/ /\ file \in FileIds(files)
        /\ RemoteDeleteFile(file)
        /\ Log("delete", file, TRUE)
        /\ loc' = [loc EXCEPT !.i = @ + 1]
        /\ DeleteAssistantNext([loc EXCEPT !.i = @ + 1])
     \/ /\ Log("delete", file, FALSE)
        /\ Throw(Err("delete", "files"))
        /\ UNCHANGED <<files, loc>>
  /\ UNCHANGED <<nextFileId, asst, stores, nextStoreId, attachments, args, pre, nops>>

\* DELETE /vector_stores/{id}: the store goes, and its attachment records with it
RemoteDeleteStore(vs) ==
  /\ stores' = stores \ {vs}
  /\ attachments' = {a \in attachments : a[1] # vs}

\* await this.vectorStoreClient.delete(vStoreId)
DeleteAssistantStore ==
  /\ pc = "da_store"
  /\ \/ /\ RemoteDeleteStore(loc.vStoreId)
        /\ Log("deleteStore", loc.vStoreId, TRUE)
        /\ Goto("da_delete")
     \/ /\ Log("deleteStore", loc.vStoreId, FALSE)
        /\ Throw(Err("deleteStore", "store"))
        /\ UNCHANGED <<stores, attachments>>
  /\ UNCHANGED <<files, nextFileId, asst, nextStoreId, args, loc, pre, nops>>

\* await this.assistantClient.deleteAssistant(assistantId)
DeleteAssistantDelete ==
  /\ pc = "da_delete"
  /\ \/ /\ asst' = NoAssistant
        /\ Log("deleteAssistant", asst.id, TRUE)
        /\ Finish
     \/ /\ Log("deleteAssistant", asst.id, FALSE)
        /\ Throw(Err("deleteAssistant", "assistant"))
        /\ UNCHANGED asst
  /\ UNCHANGED <<files, nextFileId, stores, nextStoreId, attachments, args, loc, pre, nops>>

deleteAssistant ==
  \/ DeleteAssistantStart
  \/ DeleteAssistantGet
  \/ DeleteAssistantList
  \/ DeleteAssistantFile
  \/ DeleteAssistantStore
  \/ DeleteAssistantDelete

AssistantNext == newAssistant \/ deleteAssistant \/ Exit

AssistantSpec == AssistantInit /\ [][AssistantNext]_vars

(* ================== transport core, resource clients =================== *)
(* One request of one resource-client method: ClientCore.request turns the  *)
(* HTTP response into an ApiResponse, and the method branches on its status.*)

ClientMethods ==
  {"FileClient.get", "FileClient.upload", "FileClient.delete", "FileClient.search",
   "FileClient.list",
   "AssistantClient.createAssistant", "AssistantClient.updateAssistant",
   "AssistantClient.deleteAssistant", "AssistantClient.listAssistants",
   "AssistantClient.assistant", "AssistantClient.attachCodeFile",
   "AssistantClient.detachCodeFile",
   "VectorStoreClient.get", "VectorStoreClient.create", "VectorStoreClient.delete",
   "VectorStoreClient.list", "VectorStoreClient.attachFile",
   "VectorStoreClient.detachFile", "VectorStoreClient.listFiles"}

\* the HTTP statuses the remote answers with
HttpStatuses == {200, 201, 204, 304, 400, 404, 500}

ReasonPhrase(status) ==
  CASE status = 200 -> "OK"
    [] status = 201 -> "Created"
    [] status = 204 -> "No Content"
    [] status = 304 -> "Not Modified"
    [] status = 400 -> "Bad Request"
    [] status = 404 -> "Not Found"
    [] OTHER -> "Internal Server Error"

\* the response bodies, as text
RawBodies == {"{\"id\":1}", "[]", "null", "", "<html>Bad Gateway</html>"}

\* JSON.parse(rawData) does not throw
IsJson(raw) == raw \in {"{\"id\":1}", "[]", "null"}

\* JSON.parse(rawData), for a text it accepts
JsonParse(raw) ==
  CASE raw = "{\"id\":1}" -> [type |-> "object", id |-> 1]
    [] raw = "[]" -> [type |-> "array", items |-> <<>>]
    [] OTHER -> [type |-> "null"]

HttpResponses ==
  {[status |-> s, statusText |-> ReasonPhrase(s), body |-> b] :
     s \in HttpStatuses, b \in RawBodies}

\* response.ok
ResponseOk(response) == response.status >= 200 /\ response.status <= 299

TransportInit ==
  /\ \E acc \in {Account(<<>>, Absent, {}, {})} :
       /\ files = acc.files
       /\ asst = acc.asst
       /\ stores = acc.stores
       /\ attachments = acc.attachments
       /\ pre = [files |-> acc.files, asst |-> acc.asst,
                  attachments |-> acc.attachments, stores |-> acc.stores,
                  nextFileId |-> 1, nextStoreId |-> 1]
  /\ nextFileId = 1
  /\ nextStoreId = 1
  /\ pc = "rq_fetch"
  /\ \E m \in ClientMethods, r \in HttpResponses :
       args = [op |-> "request", method |-> m, response |-> r]
  /\ loc = NoLoc
  /\ calls = <<>>
  /\ result = NoResult
  /\ nops = 1

\* a slip: no try around JSON.parse, the SyntaxError leaves request
ParseFailedRaises(response) ==
  /\ Throw(Err("JSON.parse", "SyntaxError"))
  /\ UNCHANGED loc

\* catch (_) { return { rawData, status: 500, statusText: 'Fail on json encode even when 200' } }
ParseFailed(response) ==
  /\ loc' = [loc EXCEPT !.resp = [rawData |-> response.body, status |-> 500,
                                  statusText |-> "Fail on json encode even when 200"]]
  /\ Goto("rq_check")

\* const response = await fetch(..); const rawData = await response.text();
\* then the ApiResponse request returns; fetch itself throws when the network fails
Request ==
  /\ pc = "rq_fetch"
  /\ \/ LET response == args.response IN
          IF ResponseOk(response)
          THEN IF IsJson(response.body)
               THEN /\ loc' = [loc EXCEPT !.resp = [data |-> JsonParse(response.body),
                                                    status |-> response.status]]
                    /\ Goto("rq_check")
               ELSE ParseFailed(response)
          ELSE /\ loc' = [loc EXCEPT !.resp = [rawData |-> response.body,
                                               status |-> response.status,
                                               statusText |-> response.statusText]]
               /\ Goto("rq_check")
     \/ /\ Throw(Err("fetch", "network"))
        /\ UNCHANGED loc
  /\ UNCHANGED <<remote, args, calls, pre, nops>>

\* a slip: every 2xx status of the result is taken for success
IsSuccessAny2xx(resp) == resp.status >= 200 /\ resp.status <= 299

\* a slip: the status of the result is not looked at
IsSuccessAlways(resp) == TRUE

\* if (resp.status !== 200) throw new ApiError(resp)
IsSuccess(resp) == resp.status = 200

\* the method branches on the result: throw new ApiError(resp), or go on with resp.data!
MethodCheck ==
  /\ pc = "rq_check"
  /\ IF IsSuccess(loc.resp) THEN Finish ELSE Throw(Err(args.method, "ApiError"))
  /\ UNCHANGED <<remote, args, loc, calls, pre, nops>>

TransportNext == Request \/ MethodCheck

TransportSpec == TransportInit /\ [][TransportNext]_vars

(* ------------------------- claims, continued --------------------------- *)

\* the first vector store id in the assistant's tool_resources, 0 for none
LinkedStore(a) ==
  IF a.file_search.present /\ a.file_search.ids # <<>> THEN a.file_search.ids[1] ELSE 0

\* C12: after uploadFile with the vector-store destination has returned: if the
\* assistant had no linked vector store, exactly one new store exists, it is the
\* one linked in the assistant's tool_resources, and the uploaded file is
\* attached to it; if the assistant had a linked store, no store was created,
\* the link is as before and the uploaded file is attached to that store.
C12_LazyVectorStore ==
  (Done("uploadFile") /\ result = Returned /\ args.fileDestination = "file") =>
     /\ UploadedInRun # {}
     /\ \A id \in UploadedInRun :
          IF LinkedStore(pre.asst) = 0
          THEN /\ stores = pre.stores \cup {pre.nextStoreId}
               /\ pre.nextStoreId \notin pre.stores
               /\ LinkedStore(asst) = pre.nextStoreId
               /\ <<pre.nextStoreId, id>> \in attachments
          ELSE /\ stores = pre.stores
               /\ LinkedStore(asst) = LinkedStore(pre.asst)
               /\ <<LinkedStore(pre.asst), id>> \in attachments

\* reached: a file was uploaded for an assistant without a store, and the store
\* was created, linked and given the file
C12_Witness ==
  /\ Done("uploadFile") /\ result = Returned /\ args.fileDestination = "file"
  /\ LinkedStore(pre.asst) = 0
  /\ stores # pre.stores
  /\ attachments # pre.attachments

\* the files attached to the store when the running operation started
AttachedBefore(vs) == {a[2] : a \in {x \in pre.attachments : x[1] = vs}}

\* C13: a deleteAssistant that returned, when includeFiles was requested and the
\* assistant had a linked vector store, has deleted every file attached to that
\* store, then the store, and the assistant record last; otherwise it has
\* deleted the assistant record alone, all files and stores left in place.
C13_DeleteAssistant ==
  (Done("deleteAssistant") /\ result = Returned) =>
     LET vs == LinkedStore(pre.asst)
         n == Len(calls)
     IN /\ asst = NoAssistant
        /\ n >= 1 /\ calls[n].call = "deleteAssistant"
        /\ IF args.includeFiles /\ vs # 0
           THEN /\ \A id \in AttachedBefore(vs) : id \notin FileIds(files)
                /\ vs \notin stores
                /\ n = Cardinality(AttachedBefore(vs)) + 2
                /\ calls[n - 1].call = "deleteStore" /\ calls[n - 1].arg = vs
                /\ \A k \in 1..(n - 2) :
                     calls[k].call = "delete" /\ calls[k].arg \in AttachedBefore(vs)
           ELSE /\ n = 1
                /\ files = pre.files /\ stores = pre.stores
                /\ attachments = pre.attachments

\* reached: an assistant whose store held two files was deleted with its files
C13_Witness ==
  /\ Done("deleteAssistant") /\ result = Returned /\ args.includeFiles
  /\ Cardinality(AttachedBefore(LinkedStore(pre.asst))) = 2
  /\ files = <<>>

\* C14: a newAssistant that returned has created the assistant first; if a
\* vector store was requested it has then created one store, named after the
\* assistant, and linked it, and the assistant it returns references exactly
\* that store; if none was requested, no store was created and the returned
\* assistant references none.
C14_NewAssistant ==
  (Done("newAssistant") /\ result = Returned) =>
     /\ calls[1].call = "createAssistant"
     /\ loc.newAssistant.name = args.create.name
     /\ IF args.create.vectorStore
        THEN /\ Len(calls) = 3
             /\ calls[2].call = "createStore" /\ calls[2].body.name = args.create.name
             /\ calls[3].call = "update"
             /\ stores = pre.stores \cup {calls[2].arg}
             /\ calls[2].arg \notin pre.stores
             /\ loc.newAssistant.file_search = Entry(<<calls[2].arg>>)
        ELSE /\ Len(calls) = 1
             /\ stores = pre.stores
             /\ LinkedStore(loc.newAssistant) = 0

\* reached: an assistant was created together with its store
C14_Witness ==
  /\ Done("newAssistant") /\ result = Returned /\ args.create.vectorStore
  /\ stores # {} /\ LinkedStore(asst) \in stores

\* the file was attached to the assistant's vector store when the command started
AttachedToStoreBefore(id) ==
  LinkedStore(pre.asst) # 0 /\ <<LinkedStore(pre.asst), id>> \in pre.attachments

ExitedWithoutTarget == result = Raised(Err("getAssistantId", "exit"))

\* C19: the assistant id given per invocation (--assistant-id) is the target of
\* the command whenever it is given, also when OPENAI_ASSISTANT_ID is set; the
\* environment value is the target when the option is not given; and the
\* command ends with exit code 1 for want of a target only when neither is given.
C19_OptionOverridesEnvironment ==
  Done("delete") =>
     /\ args.options.assistantId # 0 =>
          ~ExitedWithoutTarget /\ loc.assistantId = args.options.assistantId
     /\ (args.options.assistantId = 0 /\ args.options.openaiAssistantId # 0) =>
          ~ExitedWithoutTarget /\ loc.assistantId = args.options.openaiAssistantId
     /\ ExitedWithoutTarget =>
          args.options.assistantId = 0 /\ args.options.openaiAssistantId = 0

\* the files that existed before the operation under the name of a local file
Namesakes ==
  {pre.files[k].id : k \in {m \in DOMAIN pre.files :
                              pre.files[m].filename \in Range(args.localFiles)}}

\* the positions of the calls that detach the file: from a vector store, or from
\* the code list (the update detachCodeFile sends for it)
DetachCallsOf(id) == CallsAt("detach", id) \cup CallsAt("update", id)

\* every previously existing namesake was deleted, after it was detached from
\* wherever it was referenced
DetachedThenDeleted ==
  \A id \in Namesakes :
     /\ CallsAt("delete", id) # {}
     /\ <<LinkedStore(pre.asst), id>> \in pre.attachments => CallsAt("detach", id) # {}
     /\ Includes(CodeFilesOf(pre.asst), id) => CallsAt("update", id) # {}
     /\ \A d \in DetachCallsOf(id), m \in CallsAt("delete", id) : d < m

\* every file uploaded in this run is attached to the destination asked for
NewFilesAttached ==
  \A id \in UploadedInRun :
     IF args.fileDestination = "code"
     THEN Includes(CodeFilesOf(asst), id)
     ELSE <<LinkedStore(asst), id>> \in attachments

\* C16: when uploadDir with overwrite has returned, every previously existing
\* remote file with the name of a newly uploaded file was first detached from
\* the vector store and the code list and only then deleted, and every newly
\* uploaded file is attached to the destination asked for.
C16_OverwriteDetachThenDelete ==
  (Done("uploadDir") /\ result = Returned /\ args.overwrite) =>
     DetachedThenDeleted /\ NewFilesAttached

\* the positions of the rollback's cleanup calls (file delete, vector-store
\* detach) that failed
FailedCleanupCalls ==
  {k \in DOMAIN calls : k > FailedAt /\ ~calls[k].ok
                         /\ calls[k].call \in {"delete", "detach"}}

\* C20: when a cleanup call (file delete or vector-store detach) fails during
\* the rollback of uploadDir, it is the last call uploadDir makes: the uploaded
\* files after it are not cleaned up and the code list is not restored (no
\* update is sent), and the error uploadDir raises is the cleanup error, not
\* the error that failed the upload loop.
C20_CleanupFailureAborts ==
  (LoopFailed /\ FailedCleanupCalls # {}) =>
     \E k \in FailedCleanupCalls :
        /\ k = Len(calls)
        /\ \A m \in DOMAIN calls : m > FailedAt => calls[m].call # "update"
        /\ result = Raised(Err(IF calls[k].call = "delete" THEN "delete" ELSE "detachFile",
                               "rollback"))
        /\ result.error # loc.caught

\* reached: the delete of the first of two uploaded files failed in the
\* rollback, the second file was left on the remote
C20_Witness ==
  /\ LoopFailed /\ FailedCleanupCalls # {}
  /\ Cardinality(UploadedInRun) = 2
  /\ UploadedInRun \subseteq FileIds(files)
  /\ result = Raised(Err("delete", "rollback"))

\* fetch has answered: request got an HTTP response
Answered == pc # "rq_fetch" /\ result.error # Err("fetch", "network")

\* C17: once the remote has answered, request has returned a result and raised
\* nothing: for a 2xx response whose body is not JSON, the result with status
\* 500, the fixed status text and the raw text; for a non-2xx response, the
\* result with the real status and status text and the raw text, and no data.
C17_TransportResultShape ==
  Answered =>
     LET response == args.response IN
     /\ result.error # Err("JSON.parse", "SyntaxError")
     /\ (response.status \in 200..299 /\ ~IsJson(response.body)) =>
          loc.resp = [rawData |-> response.body, status |-> 500,
                      statusText |-> "Fail on json encode even when 200"]
     /\ response.status \notin 200..299 =>
          /\ loc.resp.status = response.status
          /\ loc.resp.rawData = response.body
          /\ "data" \notin DOMAIN loc.resp

\* reached: a 204 with an empty body came back as the synthetic 500
C17_Witness ==
  /\ Answered
  /\ args.response.status = 204 /\ args.response.body = ""
  /\ loc.resp.status = 500

\* the method returned the data parsed from the body of the response
ReturnedParsedData ==
  /\ result = Returned
  /\ "data" \in DOMAIN loc.resp
  /\ IsJson(args.response.body)
  /\ loc.resp.data = JsonParse(args.response.body)

\* the method raised the ApiError made from the result
RaisedApiError == result = Raised(Err(args.method, "ApiError"))

FilesBefore == FileIds(pre.files)

\* the positions of the calls that delete or detach a file that existed before
\* the running operation: a file delete, a vector-store detach, or the update
\* detachCodeFile sends for it
CallsOnPriorFiles ==
  {k \in DOMAIN calls : /\ calls[k].call \in {"delete", "detach", "update"}
                        /\ calls[k].arg \in FilesBefore}

\* every file that existed before is still there, with every reference it had
PriorFilesKept ==
  /\ \A k \in DOMAIN pre.files : Includes(files, pre.files[k])
  /\ pre.attachments \subseteq attachments
  /\ \A k \in DOMAIN CodeFilesOf(pre.asst) :
        Includes(CodeFilesOf(asst), CodeFilesOf(pre.asst)[k])

\* before call k, every local file of the directory was uploaded and attached:
\* one successful upload per local file, each followed by the successful attach of
\* its file, and no failed call of the loop
AllUploadedAndAttached(k) ==
  LET loopCalls == {m \in 1..(k - 1) : calls[m].arg \notin FilesBefore} IN
  /\ \A m \in loopCalls : calls[m].ok
  /\ Cardinality({m \in loopCalls : calls[m].call = "upload"}) = Len(args.localFiles)
  /\ \A m \in loopCalls : calls[m].call = "upload" =>
        \E n \in loopCalls :
           /\ n > m
           /\ calls[n].arg = calls[m].arg
           /\ calls[n].call = IF args.fileDestination = "code" THEN "update" ELSE "attach"

\* C21: when the upload loop of uploadDir failed, with or without overwrite, no
\* file that existed before the call was deleted or detached (no such call was
\* issued, and the files, attachments and code-list entries of before are all
\* there); and a call of the overwrite pass on a previous file is issued only
\* after every local file was uploaded and attached successfully.
C21_FailedLoopKeepsPriorFiles ==
  /\ LoopFailed => (CallsOnPriorFiles = {} /\ PriorFilesKept)
  /\ args.op = "uploadDir" => \A k \in CallsOnPriorFiles : AllUploadedAndAttached(k)

\* reached: an overwriting uploadDir failed at its second file, the namesake of
\* its first file being attached to the store
C21_Witness ==
  /\ LoopFailed /\ args.overwrite /\ DirNameTaken
  /\ UploadedInRun # {}
  /\ pre.attachments # {}
  /\ PriorFilesKept

\* the file records the running operation deleted
DeletedInRun == {calls[k].arg : k \in {m \in DOMAIN calls :
                                         calls[m].call = "delete" /\ calls[m].ok}}

\* an orchestrator operation that deletes file records completed: uploadFile,
\* uploadDir or the delete command returned, or the rollback of uploadDir went
\* through and uploadDir raised the error of its loop
DeletingOperationCompleted ==
  /\ pc = "done"
  /\ args.op \in {"uploadFile", "uploadDir", "delete"}
  /\ \/ result = Returned
     \/ LoopFailed /\ CleanupSucceeded /\ result.error = loc.caught

\* no attachment of a surviving store and no code list references the file
Unreferenced(id) ==
  /\ \A a \in attachments : a[1] \in stores => a[2] # id
  /\ ~Includes(CodeFilesOf(asst), id)

\* C22: after an orchestrator operation that deletes a file record has completed
\* (uploadFile with overwrite, the overwrite pass or the rollback of uploadDir,
\* the delete command), no attachment of a surviving vector store and no code
\* list of the assistant references a file id the operation deleted.
C22_NoDanglingReferences ==
  DeletingOperationCompleted => \A id \in DeletedInRun : Unreferenced(id)

\* the position of uploadFile's successful upload call; 0 when there is none
UploadedAt ==
  IF \E k \in DOMAIN calls : calls[k].call = "upload" /\ calls[k].ok
  THEN CHOOSE k \in DOMAIN calls : calls[k].call = "upload" /\ calls[k].ok
  ELSE 0

\* a step of uploadFile failed after its upload had succeeded
FailedAfterUpload ==
  /\ Done("uploadFile")
  /\ UploadedAt # 0
  /\ \E k \in DOMAIN calls : k > UploadedAt /\ ~calls[k].ok

\* the error uploadFile raises for the failure of this call
ErrorOfStep(c) ==
  IF c.call = "createStore" THEN Err("createStore", "store")
  ELSE IF c.call = "attach" THEN Err("attachFile", "attach")
  ELSE IF c.arg = 0 THEN Err("updateAssistant", "store")
  ELSE Err("attachCodeFile", "attach")

\* C23: when a step of uploadFile failed after the upload succeeded (the attach
\* to the code list, the creation of the store, its linking, or the attach to
\* the store), uploadFile raises the error of that step, which is its last
\* call; the uploaded file record is on the remote, in no store and not in the
\* code list; and no delete or detach call follows the upload.
C23_NoCompensation ==
  FailedAfterUpload =>
     /\ ~calls[Len(calls)].ok
     /\ result = Raised(ErrorOfStep(calls[Len(calls)]))
     /\ \A id \in UploadedInRun :
          /\ id \in FileIds(files)
          /\ Unattached(id)
          /\ ~Includes(CodeFilesOf(asst), id)
     /\ \A k \in DOMAIN calls : k > UploadedAt => calls[k].call \notin {"delete", "detach"}

\* reached: the store was created, its linking failed, and the uploaded file
\* stayed on the remote
C23_Witness ==
  /\ FailedAfterUpload
  /\ result = Raised(Err("updateAssistant", "store"))
  /\ stores # pre.stores
  /\ UploadedInRun \subseteq FileIds(files)

(* ============ attachCodeFile, detachCodeFile on any code list =========== *)
(* The two methods called on their own (the actions of codeFile), for every  *)
(* code list the assistant may hold, repeated ids included.                  *)

\* how many ids the assistant's code list holds at most
MaxCodes == 3

FileC == [id |-> 3, filename |-> "b"]

\* the code_interpreter entries of the assistant: none, or any list of file ids
CodeEntries ==
  {Absent} \cup {Entry(s) : s \in UNION {[1..n -> {1, 2, 3}] : n \in 0..MaxCodes}}

CodeListInit ==
  /\ files = <<FileA, FileB, FileC>>
  /\ nextFileId = 4
  /\ \E ci \in CodeEntries, fs \in {Entry(<<>>), Entry(<<1>>)} :
       /\ asst = NewAssistant(ci, fs)
       /\ stores = IF fs.ids = <<>> THEN {} ELSE {1}
       /\ pre = [files |-> <<FileA, FileB, FileC>>, asst |-> NewAssistant(ci, fs),
                  attachments |-> {}, stores |-> IF fs.ids = <<>> THEN {} ELSE {1},
                  nextFileId |-> 4,
                  nextStoreId |-> IF fs.ids = <<>> THEN 1 ELSE 2]
       /\ nextStoreId = IF fs.ids = <<>> THEN 1 ELSE 2
  /\ attachments = {}
  /\ pc = "idle"
  /\ args = NoArgs
  /\ loc = NoLoc
  /\ calls = <<>>
  /\ result = NoResult
  /\ nops = 0

CodeListSpec == CodeListInit /\ [][codeFile \/ Exit]_vars

\* the list holds the ids of old in their order, and then id
IsAppended(list, old, id) ==
  /\ Len(list) = Len(old) + 1
  /\ \A k \in DOMAIN old : list[k] = old[k]
  /\ list[Len(list)] = id

\* the list is old without any occurrence of id, the other ids in their order
IsRemoved(list, old, id) ==
  LET NotId(x) == x # id IN list = SelectSeq(old, NotId)

\* the one call of the method sent this list as the code list, and nothing else
PushedOnly(IsList(_)) ==
  /\ Len(calls) = 1
  /\ calls[1].call = "update"
  /\ DOMAIN calls[1].body = {"tool_resources"}
  /\ DOMAIN calls[1].body.tool_resources = {"code_interpreter"}
  /\ IsList(calls[1].body.tool_resources.code_interpreter)
  /\ \A f \in AssistantFields \ {"code_interpreter"} : asst[f] = pre.asst[f]
  /\ calls[1].ok => IsList(CodeFilesOf(asst))
  /\ ~calls[1].ok => asst = pre.asst

\* C24: attachCodeFile with an id absent from the assistant's code list sends
\* the list with the id appended, every id of before kept in its order;
\* detachCodeFile with an id present in it sends the list with every occurrence
\* of the id removed and every other id kept in its order; the payload names
\* the code_interpreter sub-resource alone, and no other field of the
\* assistant changes.
C24_CodeListReplacement ==
  /\ (Called("attachCodeFile") /\ ~InCodeBefore) =>
        LET Appended(list) == IsAppended(list, CodeFilesOf(pre.asst), args.fileId)
        IN PushedOnly(Appended)
  /\ (Called("detachCodeFile") /\ InCodeBefore) =>
        LET Removed(list) == IsRemoved(list, CodeFilesOf(pre.asst), args.fileId)
        IN PushedOnly(Removed)

\* reached: an id held twice was detached from a list of three, the other id staying
C24_Witness ==
  /\ Called("detachCodeFile") /\ args.fileId = 1
  /\ CodeFilesOf(pre.asst) = <<1, 2, 1>>
  /\ calls # <<>> /\ calls[1].ok
  /\ CodeFilesOf(asst) = <<2>>

\* the positions of the upload calls, succeeded or failed
UploadCalls == {k \in DOMAIN calls : calls[k].call = "upload"}

\* the call attaches this file to the destination asked for
IsAttachOf(c, id) ==
  /\ c.arg = id
  /\ c.call = IF args.fileDestination = "code" THEN "update" ELSE "attach"

\* C25: uploadDir uploads the local files one at a time in enumeration order:
\* its n-th upload call is for the n-th local file; the call that follows a
\* successful upload is the attach of that very file to the destination asked
\* for, so that the next upload comes after it; an upload is issued only when
\* every call before it succeeded, none after a failed upload or attach.
C25_UploadOrdering ==
  args.op = "uploadDir" =>
     \A k \in UploadCalls :
        LET n == Cardinality({m \in UploadCalls : m <= k}) IN
        /\ n <= Len(args.localFiles)
        /\ \A m \in 1..(k - 1) : calls[m].ok
        /\ (calls[k].ok /\ calls[k].arg \in FileIds(files)) =>
              Includes(files, [id |-> calls[k].arg, filename |-> args.localFiles[n]])
        /\ (calls[k].ok /\ k < Len(calls)) => IsAttachOf(calls[k + 1], calls[k].arg)
        /\ (calls[k].ok /\ pc = "done" /\ result = Returned) => k < Len(calls)

\* reached: two files went up, each attached to the store before the next call
C25_Witness ==
  /\ Done("uploadDir") /\ result = Returned /\ args.fileDestination = "file"
  /\ Len(args.localFiles) = 2 /\ Len(calls) >= 4
  /\ calls[Len(calls) - 3].call = "upload" /\ calls[Len(calls) - 2].call = "attach"
  /\ calls[Len(calls) - 1].call = "upload" /\ calls[Len(calls)].call = "attach"
  /\ calls[Len(calls) - 2].arg # calls[Len(calls)].arg

(* ========================= FileClient.search =========================== *)
(* The loop of search against GET /files: `files` holds the records the      *)
(* remote serves, in server order; loc.i counts the pages requested.         *)

\* the file records the remote may hold: distinct ids in any server order,
\* filenames that may repeat
NamedCollections ==
  UNION {{[k \in DOMAIN s |-> [id |-> s[k], filename |-> n[k]]] :
            n \in [DOMAIN s -> Names]} : s \in DistinctSeqs(1..MaxItems, MaxItems)}

SearchInit ==
  /\ files \in NamedCollections
  /\ nextFileId = MaxItems + 1
  /\ asst = NewAssistant(Absent, Entry(<<>>))
  /\ stores = {}
  /\ nextStoreId = 1
  /\ attachments = {}
  /\ pc = "sr_page"
  /\ \E name \in Names, limit \in 1..MaxPage :
       args = [op |-> "search", fileName |-> name, limit |-> limit]
  /\ loc = NoLoc
  /\ calls = <<>>
  /\ result = NoResult
  /\ pre = [files |-> files]
  /\ nops = 1

\* a slip: the page is searched from its end
SearchHitLast(page, fileName) ==
  IF \E k \in DOMAIN page.data : page.data[k].filename = fileName
  THEN page.data[CHOOSE k \in DOMAIN page.data :
                   /\ page.data[k].filename = fileName
                   /\ \A m \in DOMAIN page.data : page.data[m].filename = fileName => m <= k]
  ELSE NoFile

\* const file = files.find((f) => f.filename === fileName)
SearchHit(page, fileName) == FindByName(page.data, fileName)

\* one turn of do { .. } while (after): a page is requested; non-200 throws; a
\* match in the page is returned; otherwise the cursor moves, and null is
\* returned when no page is left
SearchPage ==
  /\ pc = "sr_page"
  /\ \/ LET page == ServePage(files, loc.after, args.limit)
            file == SearchHit(page, args.fileName)
        IN IF file # NoFile
           THEN /\ loc' = [loc EXCEPT !.existingFile = file, !.i = @ + 1]
                /\ Finish
           ELSE /\ loc' = [loc EXCEPT !.after = NextAfter(page), !.i = @ + 1]
                /\ IF NextAfter(page) # 0 THEN Goto("sr_page") ELSE Finish
     \/ /\ Throw(Err("search", "get"))
        /\ UNCHANGED loc
  /\ UNCHANGED <<remote, args, calls, pre, nops>>

SearchSpec == SearchInit /\ [][SearchPage]_vars

\* the positions of the records whose filename is the one searched for
Matches == {k \in DOMAIN files : files[k].filename = args.fileName}

\* the pages that hold the first n records, at least one being always requested
PagesFor(n) == IF n = 0 THEN 1 ELSE (n + args.limit - 1) \div args.limit

\* C26: when search returns, it returns the first record, in server order
\* across the pages, whose filename equals the argument, having requested the
\* pages up to the one that holds it and none after; it returns null only when
\* no record has that filename, having requested every page.
C26_SearchFirstMatch ==
  (Done("search") /\ result = Returned) =>
     IF Matches = {}
     THEN /\ loc.existingFile = NoFile
          /\ loc.i = PagesFor(Len(files))
     ELSE \E k \in Matches :
            /\ \A m \in Matches : k <= m
            /\ loc.existingFile = files[k]
            /\ loc.i = PagesFor(k)

\* reached: the match was found in the second page, a namesake and a further
\* page lying behind it
C26_Witness ==
  /\ Done("search") /\ result = Returned
  /\ loc.existingFile # NoFile
  /\ loc.i = 2
  /\ Cardinality(Matches) >= 2
  /\ Len(files) > 2 * args.limit

\* the ids the code list held before, but for the namesakes the overwrite pass
\* is there to remove
CodeIdsToKeep ==
  Range(CodeFilesOf(pre.asst)) \ (IF args.overwrite THEN Namesakes ELSE {})

\* C27: after uploadDir with the code destination has returned, the assistant's
\* remote code list holds the id of every file uploaded in this run and every
\* id it held before (but the old namesakes an overwrite removes), whether the
\* assistant had a code_interpreter entry before the call or none.
C27_DirCodeAttachesAll ==
  (Done("uploadDir") /\ result = Returned /\ args.fileDestination = "code") =>
     /\ Cardinality(UploadedInRun) = Len(args.localFiles)
     /\ \A id \in UploadedInRun \cup CodeIdsToKeep : Includes(CodeFilesOf(asst), id)

(* ================= two invocations of uploadFile at once ================ *)
(* Two invocations of the tool run uploadFile with the code destination     *)
(* against the same assistant, each for a new file of its own name; their   *)
(* network calls interleave in any order.  Here pc, args, loc and result    *)
(* hold one value per invocation.                                           *)

Invocations == {1, 2}

\* the file each invocation uploads
FileNameOf(p) == IF p = 1 THEN "a" ELSE "b"

\* the accounts the two invocations may find: no file under either name; the
\* assistant's code list absent, empty, or holding an earlier file
SharedAccounts ==
  {Account(<<>>, Absent, {}, {}), Account(<<>>, Entry(<<>>), {}, {}),
   Account(<<[id |-> 1, filename |-> "c"]>>, Entry(<<1>>), {}, {})}

ConcurrentInit ==
  /\ \E acc \in SharedAccounts :
       /\ files = acc.files
       /\ asst = acc.asst
       /\ stores = acc.stores
       /\ attachments = acc.attachments
       /\ nextFileId = Len(acc.files) + 1
       /\ nextStoreId = 1
       /\ pre = [files |-> acc.files, asst |-> acc.asst,
                  attachments |-> acc.attachments, stores |-> acc.stores,
                  nextFileId |-> Len(acc.files) + 1, nextStoreId |-> 1]
  /\ pc = [p \in Invocations |-> "uf_assistant"]
  /\ args = [p \in Invocations |->
               [op |-> "uploadFile", fileName |-> FileNameOf(p), overwrite |-> FALSE,
                fileDestination |-> "code"]]
  /\ loc = [p \in Invocations |-> NoLoc]
  /\ calls = <<>>
  /\ result = [p \in Invocations |-> NoResult]
  /\ nops = 2

\* invocation p goes on at q
GotoOf(p, q) == pc' = [pc EXCEPT ![p] = q] /\ UNCHANGED result

\* invocation p returns its value
FinishOf(p) == pc' = [pc EXCEPT ![p] = "done"] /\ result' = [result EXCEPT ![p] = Returned]

\* invocation p raises e
ThrowOf(p, e) == pc' = [pc EXCEPT ![p] = "done"] /\ result' = [result EXCEPT ![p] = Raised(e)]

\* const assistant = await this.assistantClient.assistant(assistantId)
ConcurrentGetAssistant(p) ==
  /\ pc[p] = "uf_assistant"
  /\ \/ /\ loc' = [loc EXCEPT ![p].assistant = asst]
        /\ GotoOf(p, "uf_search")
     \/ /\ ThrowOf(p, Err("assistant", "get"))
        /\ UNCHANGED loc
  /\ UNCHANGED <<remote, args, calls, pre, nops>>

\* const existingFile = await this.fileClient.search(fileName), and the
\* collision check that follows it
ConcurrentSearch(p) ==
  /\ pc[p] = "uf_search"
  /\ \/ LET found == FindByName(files, args[p].fileName) IN
          /\ loc' = [loc EXCEPT ![p].existingFile = found]
          /\ IF MustRefuse(found, args[p].overwrite)
             THEN ThrowOf(p, Err("exists", "check"))
             ELSE GotoOf(p, "uf_upload")
     \/ /\ ThrowOf(p, Err("search", "check"))
        /\ UNCHANGED loc
  /\ UNCHANGED <<remote, args, calls, pre, nops>>

\* const fileData = await this.fileClient.upload({ filePath, fileName })
ConcurrentUpload(p) ==
  /\ pc[p] = "uf_upload"
  /\ \/ /\ RemoteUpload(args[p].fileName)
        /\ Log("upload", nextFileId, TRUE)
        /\ loc' = [loc EXCEPT ![p].fileData = nextFileId]
        /\ GotoOf(p, "uf_attach_code")
     \/ /\ Log("upload", 0, FALSE)
        /\ ThrowOf(p, Err("upload", "upload"))
        /\ UNCHANGED <<files, nextFileId, loc>>
  /\ UNCHANGED <<asst, stores, nextStoreId, attachments, args, pre, nops>>

\* await this.assistantClient.attachCodeFile(assistant, fileData.id): the list
\* sent is built from the assistant this invocation fetched
ConcurrentAttachCode(p) ==
  /\ pc[p] = "uf_attach_code"
  /\ IF AlreadyAttached(loc[p].assistant, loc[p].fileData)
     THEN /\ FinishOf(p)
          /\ UNCHANGED <<asst, calls, loc>>
     ELSE LET body == CodeBody(AttachCodes(loc[p].assistant, loc[p].fileData)) IN
          /\ loc' = [loc EXCEPT ![p].assistant = Pushed(@, loc[p].fileData)]
          /\ \/ /\ RemoteUpdate(body)
                /\ LogBody("update", loc[p].fileData, TRUE, body)
                /\ FinishOf(p)
             \/ /\ LogBody("update", loc[p].fileData, FALSE, body)
                /\ ThrowOf(p, Err("attachCodeFile", "attach"))
                /\ UNCHANGED asst
  /\ UNCHANGED <<files, nextFileId, stores, nextStoreId, attachments, args, pre, nops>>

ConcurrentNext ==
  \E p \in Invocations :
     \/ ConcurrentGetAssistant(p)
     \/ ConcurrentSearch(p)
     \/ ConcurrentUpload(p)
     \/ ConcurrentAttachCode(p)

ConcurrentSpec == ConcurrentInit /\ [][ConcurrentNext]_vars

\* both invocations have returned without error
BothReturned == \A p \in Invocations : pc[p] = "done" /\ result[p] = Returned

\* C28: when two invocations each attach the file they uploaded to the code
\* list of the same assistant and both return without error, whatever the
\* interleaving of their calls, the assistant's code list holds both ids.
C28_ConcurrentAttachesKept ==
  BothReturned =>
     \A p \in Invocations : Includes(CodeFilesOf(asst), loc[p].fileData)

\* C29: when uploadFile with overwrite, given the filename of an existing
\* remote file, has returned or raised, at least one remote file record has
\* that filename.
C29_OverwriteKeepsName ==
  (Done("uploadFile") /\ args.overwrite /\ NameTaken) =>
     \E k \in DOMAIN files : files[k].filename = args.fileName

\* C30: a resource-client method returns only when the status of the response
\* is exactly 200; a response with another 2xx status and a valid JSON body
\* (201, 204) makes it raise ApiError, although the transport parsed the body:
\* the result the method raises on carries that status and the parsed data.
C30_SuccessIsExactly200 ==
  (Done("request") /\ Answered) =>
     /\ result = Returned => args.response.status = 200
     /\ (args.response.status \in 201..299 /\ IsJson(args.response.body)) =>
          /\ RaisedApiError
          /\ loc.resp = [data |-> JsonParse(args.response.body),
                         status |-> args.response.status]

\* reached: a 201 with a JSON object as its body made the method raise
C30_Witness ==
  /\ Done("request") /\ Answered
  /\ args.response.status = 201 /\ args.response.body = "{\"id\":1}"
  /\ loc.resp.data = [type |-> "object", id |-> 1]
  /\ RaisedApiError

====
